---------------------------- MODULE Spec2Model ----------------------------
(***************************************************************************)
(* FastTextSuggester: the state-based orchestrator                         *)
(* (src/src/core/screenshot_ocr_tool.py), its suggestion popup             *)
(* (suggestion_window.py), its mode prompt (selection_window.py) and the   *)
(* suggestion corpus (suggestion_manager.py).                              *)
(*                                                                         *)
(* Execution contexts:                                                     *)
(*   - the main thread runs ScreenshotOCRTool.start's loop: it drains the  *)
(*     Tk event queue (root.update()) and then checks the state field;     *)
(*   - every hotkey callback runs on a context of the hotkey collaborator; *)
(*     Spec lets a second callback be delivered while an earlier one is    *)
(*     still running (the SELECTION branch of handle_capture_hotkey exists *)
(*     for a capture hotkey delivered while the mode prompt blocks the     *)
(*     earlier callback), SpecSerial delivers them one at a time;          *)
(*   - every recognition job is a threading.Thread.                        *)
(* The four corpus collections are plain attributes that every context     *)
(* reads and assigns without a lock.  Spec and SpecSerial take each call   *)
(* of a SuggestionManager loader as one step; SpecStore takes the loaders  *)
(* and get_suggestions statement by statement.                             *)
(*                                                                         *)
(* SpecSweep adds the retention sweep of the output directory              *)
(* (ocr.py, cleanup_old_files) to the recognition job, file by file, on a  *)
(* directory that holds entries of earlier runs; SpecLive is the same with *)
(* every thread going on.  SpecLookup takes single calls of                *)
(* get_suggestions and load_latest_ocr_file on their own, on corpora of    *)
(* strings and on file ages in seconds.                                    *)
(*                                                                         *)
(* SpecRun takes SuggestionManager with its parsers on files of            *)
(* characters: the reference files of a data directory by their suffix,    *)
(* and a recognition artifact with its e-mail addresses and phrases.       *)
(* SpecPopup is SpecSerial with _hide_window in two steps (the window is   *)
(* destroyed, then the text is typed) and every thread going on.           *)
(*                                                                         *)
(* SpecKeys is the orchestrator with the hotkeys that take no branch put   *)
(* on record.  SpecPick takes the popup's first list, a selection with     *)
(* Enter and insert_text on corpora read from files of characters.         *)
(* SpecType is the popup with an insert_text call that may raise.          *)
(* SpecMain is the flag-based orchestrator of src/main.py: its hotkey      *)
(* callbacks set show_suggestion_window and hide_suggestion_window, and    *)
(* its main loop acts on them; every thread goes on.                       *)
(***************************************************************************)
EXTENDS Naturals, Sequences, FiniteSets

\* ------------------------------------------------------------------ bounds
\* Mode choices one run may make; each starts at most one recognition job.
MaxCaptures == 2
\* Versions the reference files go through (edits of the data directory).
MaxDataVer == 2
\* Tk callbacks that may be pending when the popup takes another key event.
MaxAfter == 1
\* Entries the output directory holds when the run starts.
MaxFiles == 2
\* Largest max_results a get_suggestions call is given.
MaxResults == 3
\* Entries of each list of the corpus a get_suggestions call works on.
MaxWords == 2
MaxPhrases == 2
MaxLines == 1
MaxBlocks == 2
\* Largest age, in seconds, of the newest file a load_latest_ocr_file call finds.
MaxAge == 62

\* ------------------------------------------------------ program constants
\* Age classes of the files of the output directory: "fresh" = at most 60 s
\* old (suggestion_manager.py:64), "stale" = older than that.  The runs
\* modelled are shorter than the retention threshold of one hour
\* (ocr.py:114), so cleanup_old_files removes none of the files the run
\* itself wrote.
Fresh == "fresh"
Stale == "stale"

\* Execution contexts other than the main thread.  The hotkey collaborator
\* (winhotkeys, not part of the repository) delivers each callback on a
\* context of its own; a callback is taken by the first free context.
Hot == {<<"hk", 1>>, <<"hk", 2>>}      \* contexts that run hotkey callbacks
Job(k) == <<"job", k>>                 \* the recognition job of capture k
Jobs == {Job(k) : k \in 1..MaxCaptures}
Threads == Hot \cup Jobs
None == "none"

\* ToolState (tool_state.py)
IDLE == "IDLE"
SELECTION == "SELECTION"
CAPTURING == "CAPTURING"
SUGGESTING == "SUGGESTING"
ToolState == {IDLE, SELECTION, CAPTURING, SUGGESTING}

VARIABLES
    state,            \* ScreenshotOCRTool.state
    stop_ocr,         \* ScreenshotOCRTool.stop_ocr
    ocr_thread,       \* ScreenshotOCRTool.ocr_thread: None or a job
    pc,               \* position of every callback context and job thread
    running,          \* what each context runs: capture / suggestion / job
    hmode,            \* capture_mode local of each capture callback
    lfile,            \* file_path argument of a running _parse_ocr_file, per context
    captures,         \* number of mode choices made so far
    selRef,           \* ScreenshotOCRTool._selection_window (class variable)
    selObj,           \* the SelectionWindow object each capture callback made
    window,           \* SuggestionWindow.window: none / withdrawn / mapped
    is_visible,       \* SuggestionWindow.is_visible
    ocr_in_progress,  \* SuggestionWindow.ocr_in_progress
    text_to_insert,   \* SuggestionWindow.text_to_insert
    afterQ,           \* Tk callbacks scheduled with window.after(0, ...)
    mpc,              \* position of the main thread
    qobs,             \* match lists the running get_suggestions call has built
    words, phrases, lines, blocks,   \* SuggestionManager collections
    dataVer,          \* version of the files in the data directory
    artifacts,        \* .txt files this run wrote to the output directory, oldest first
    outdir,           \* entries the output directory held before this run
    swList,           \* cleanup_old_files: names each running sweep has still to look at
    arg,              \* arguments of a SuggestionManager call taken on its own
    ret,              \* <<value that call returned>>, <<>> before it returns
    show_suggestion_window,   \* main.py: ScreenshotOCRTool.show_suggestion_window
    hide_suggestion_window    \* main.py: ScreenshotOCRTool.hide_suggestion_window

corpus == <<words, phrases, lines, blocks>>
popup == <<window, is_visible, ocr_in_progress, text_to_insert, afterQ>>
flags == <<show_suggestion_window, hide_suggestion_window>>
aux == <<outdir, swList, arg, ret, flags>>
vars == <<state, stop_ocr, ocr_thread, pc, running, hmode, lfile, captures, selRef, selObj,
          window, is_visible, ocr_in_progress, text_to_insert, afterQ, mpc, qobs,
          words, phrases, lines, blocks, dataVer, artifacts, outdir, swList, arg, ret,
          show_suggestion_window, hide_suggestion_window>>

\* ------------------------------------------------------------------ corpus
\* Entries are tagged with their kind and their source: the reference files
\* at a version, or the recognition artifact of a capture.
RefWord(v) == <<"word", "ref", v>>
RefPhrase(v) == <<"phrase", "ref", v>>
RefLine(v) == <<"line", "ref", v>>
RefBlock(v) == <<"block", "ref", v>>
OcrWord(k) == <<"word", "ocr", k>>
OcrPhrase(k) == <<"phrase", "ocr", k>>

InSeq(x, s) == \E i \in 1..Len(s) : s[i] = x

\* "if x not in self.xs: self.xs.append(x)"
AppendNew(s, x) == IF InSeq(x, s) THEN s ELSE Append(s, x)

\* _parse_separator_file: the key is the first line, or the first line with
\* a counter suffix " (n)", n >= 2, when that key is taken.  A key is
\* modelled as <<first line, n>>, n = 1 standing for the bare first line.
BlockKey(bs, first) ==
    LET taken == {n \in 1..(Len(bs) + 1) : InSeq(<<first, n>>, bs)}
    IN  <<first, CHOOSE n \in 1..(Len(bs) + 1) :
                    n \notin taken /\ \A m \in 1..(n - 1) : m \in taken>>

\* The four collections as one value c, and the effect of each part of the
\* two loaders on it.
Collections == [words |-> words, phrases |-> phrases, lines |-> lines, blocks |-> blocks]

SetCollections(c) ==
    /\ words' = c.words
    /\ phrases' = c.phrases
    /\ lines' = c.lines
    /\ blocks' = c.blocks

\* _parse_ocr_file: "self.words = []; self.phrases = []"
OcrReset(c) == [c EXCEPT !.words = <<>>, !.phrases = <<>>]
\* _parse_ocr_file: "self.words = list(set(words))" and the appended parts
OcrWords(c, k) == [c EXCEPT !.words = <<OcrWord(k)>>]
\* _parse_ocr_file: "self.phrases.append(...)"
OcrPhrases(c, k) == [c EXCEPT !.phrases = Append(@, OcrPhrase(k))]
\* _parse_ocr_file as a whole
ParseOcrFile(c, k) == OcrPhrases(OcrWords(OcrReset(c), k), k)

\* A faulty reload: the blocks of the run before are kept.
DataResetKeepsBlocks(c) ==
    [words |-> <<>>, phrases |-> <<>>, lines |-> <<>>, blocks |-> c.blocks]

\* load_data_files: the four collections cleared
DataReset(c) == [words |-> <<>>, phrases |-> <<>>, lines |-> <<>>, blocks |-> <<>>]
\* _parse_line_file
ParseLineFile(c, v) == [c EXCEPT !.lines = AppendNew(@, RefLine(v))]
\* _parse_data_file
ParseDataFile(c, v) ==
    [c EXCEPT !.words = AppendNew(@, RefWord(v)), !.phrases = AppendNew(@, RefPhrase(v))]
\* _parse_separator_file
ParseSeparatorFile(c, v) == [c EXCEPT !.blocks = Append(@, BlockKey(@, RefBlock(v)))]
\* load_data_files as a whole, the data directory being at version v
ParseDataFiles(c, v) ==
    ParseSeparatorFile(ParseDataFile(ParseLineFile(DataReset(c), v), v), v)

\* SuggestionManager.__init__: empty collections, then load_data_files.
InitialCollections == ParseDataFiles(DataReset(<<>>), 1)

\* A faulty check of the age: the newest file whatever its age.
LatestFileAnyAge(arts) == IF arts # <<>> THEN arts[Len(arts)].id ELSE 0

\* load_latest_ocr_file, lines 45-66: the newest .txt file of the output
\* directory if it is at most 60 s old, else 0 (the call returns False).
LatestFile(arts) ==
    IF arts # <<>> /\ arts[Len(arts)].age = Fresh THEN arts[Len(arts)].id ELSE 0

\* ------------------------------------------------------ the output directory
\* cleanup_old_files(output_dir, max_age_hours = 1): max_age_hours * 3600.
RetentionSeconds == 3600

\* Entries a run may find in the output directory.  A name is <<stem, suffix>>;
\* age is what time.time() - os.path.getmtime(filepath) gives, in seconds;
\* locked: os.remove fails on it (the file is open elsewhere, or read-only).
OldEntries == {
    [name |-> <<1, "png">>, isdir |-> FALSE, age |-> 3601, locked |-> FALSE],
    [name |-> <<2, "txt">>, isdir |-> FALSE, age |-> 3601, locked |-> TRUE],
    [name |-> <<3, "txt">>, isdir |-> FALSE, age |-> 3600, locked |-> FALSE],
    [name |-> <<4, "log">>, isdir |-> FALSE, age |-> 3601, locked |-> FALSE],
    [name |-> <<5, "png">>, isdir |-> TRUE, age |-> 3601, locked |-> FALSE]}

\* os.listdir returns the names in an arbitrary order.
Listings(names) ==
    {l \in [1..Cardinality(names) -> names] :
        \A i, k \in 1..Cardinality(names) : i # k => l[i] # l[k]}

\* A faulty test: the age of the file is not looked at.
SweepRemovesWhateverAge(e) ==
    /\ ~e.isdir
    /\ e.name[2] \in {"png", "txt"}

\* cleanup_old_files, lines 121-131: the entry is a file, its name ends in
\* .png or .txt, and it is older than the maximum age.
SweepRemoves(e) ==
    /\ ~e.isdir
    /\ e.name[2] \in {"png", "txt"}
    /\ e.age > RetentionSeconds

\* load_latest_ocr_file, lines 62-66: "if (current_time - file_time) > 60:
\* return False".
FreshSeconds == 60

\* A faulty test: a file exactly 60 s old is taken for too old.
IsRecentBelowLimit(file_time, current_time) ==
    current_time - file_time < FreshSeconds

IsRecent(file_time, current_time) == ~(current_time - file_time > FreshSeconds)

\* The .txt files of the output directory as load_latest_ocr_file finds
\* them at current_time, the newest one written at file_time.
FilesAt(k, file_time, current_time) ==
    <<[id |-> k, age |-> IF IsRecent(file_time, current_time) THEN Fresh ELSE Stale]>>

\* ------------------------------------------------------------------ strings
\* A string is the sequence of its characters.
Str_abc == <<"a", "b", "c">>
Str_ABC == <<"A", "B", "C">>
Str_abcdef == <<"a", "b", "c", "d", "e", "f">>
Str_xabc == <<"x", "a", "b", "c">>
Str_kAtAbcDotd == <<"k", "@", "A", "b", "c", ".", "d">>
Str_abcDotd == <<"a", "b", "c", ".", "d">>
Str_Abc_d == <<"A", "b", "c", " ", "d">>
Str_x_abc == <<"x", " ", "a", "b", "c">>
Str_K == <<"K">>
Str_K_abC == <<"K", " ", "a", "b", "C">>
Str_abcdef_k == <<"a", "b", "c", "d", "e", "f", " ", "k">>
Str_abcDot == <<"a", "b", "c", ".">>
Str_Atx == <<"@", "x">>

\* str.lower()
LowerChar(ch) ==
    CASE ch = "A" -> "a"
      [] ch = "B" -> "b"
      [] ch = "C" -> "c"
      [] ch = "K" -> "k"
      [] ch = "G" -> "g"
      [] ch = "H" -> "h"
      [] OTHER -> ch

Lower(str) == [i \in 1..Len(str) |-> LowerChar(str[i])]

\* "sub in str"
In(sub, str) ==
    /\ Len(sub) <= Len(str)
    /\ \E i \in 0..(Len(str) - Len(sub)) : SubSeq(str, i + 1, i + Len(sub)) = sub

\* str.startswith(sub)
StartsWith(str, sub) == Len(sub) <= Len(str) /\ SubSeq(str, 1, Len(sub)) = sub

\* ---------------------------------------------------------- get_suggestions
\* c is the corpus: c.words, c.phrases and c.lines are lists of strings,
\* c.blocks is the dict as the list of its items [key, body] in insertion
\* order; q is partial_text.lower().
\* lines 427-430
BlockMatches(c, q) ==
    LET hits == SelectSeq(c.blocks, LAMBDA b : In(q, Lower(b.body)))
    IN  [i \in 1..Len(hits) |-> hits[i].key]

\* lines 433-436
LineMatches(c, q) == SelectSeq(c.lines, LAMBDA line : In(q, Lower(line)))

\* A faulty email stage: every word with an "@", whatever the query.
EmailMatchesAnyAddress(c, q) ==
    IF In(<<"@">>, q) \/ In(<<".">>, q)
    THEN SelectSeq(c.words, LAMBDA word : In(<<"@">>, word))
    ELSE <<>>

\* lines 439-444
EmailMatches(c, q) ==
    IF In(<<"@">>, q) \/ In(<<".">>, q)
    THEN SelectSeq(c.words, LAMBDA word : In(<<"@">>, word) /\ In(q, Lower(word)))
    ELSE <<>>

\* line 447
PrefixWordMatches(c, q) == SelectSeq(c.words, LAMBDA word : StartsWith(Lower(word), q))

\* line 450
PrefixPhraseMatches(c, q) ==
    SelectSeq(c.phrases, LAMBDA phrase : StartsWith(Lower(phrase), q))

\* lines 453-456
SubstringWordMatches(c, q) ==
    SelectSeq(c.words, LAMBDA word : In(q, Lower(word)) /\ ~StartsWith(Lower(word), q))

\* lines 459-462
SubstringPhraseMatches(c, q) ==
    SelectSeq(c.phrases,
              LAMBDA phrase : In(q, Lower(phrase)) /\ ~StartsWith(Lower(phrase), q))

\* Faulty orders of the stages: lines before blocks,
AllMatchesLinesFirst(c, q) ==
    LineMatches(c, q) \o BlockMatches(c, q) \o EmailMatches(c, q)
        \o PrefixWordMatches(c, q) \o PrefixPhraseMatches(c, q)
        \o SubstringWordMatches(c, q) \o SubstringPhraseMatches(c, q)

\* the words before the blocks and the lines,
AllMatchesWordsFirst(c, q) ==
    EmailMatches(c, q) \o PrefixWordMatches(c, q) \o BlockMatches(c, q)
        \o LineMatches(c, q) \o PrefixPhraseMatches(c, q)
        \o SubstringWordMatches(c, q) \o SubstringPhraseMatches(c, q)

\* the substring matches before the prefix matches.
AllMatchesSubstringFirst(c, q) ==
    BlockMatches(c, q) \o LineMatches(c, q) \o EmailMatches(c, q)
        \o SubstringWordMatches(c, q) \o SubstringPhraseMatches(c, q)
        \o PrefixWordMatches(c, q) \o PrefixPhraseMatches(c, q)

\* line 466
AllMatches(c, q) ==
    BlockMatches(c, q) \o LineMatches(c, q) \o EmailMatches(c, q)
        \o PrefixWordMatches(c, q) \o PrefixPhraseMatches(c, q)
        \o SubstringWordMatches(c, q) \o SubstringPhraseMatches(c, q)

\* A faulty loop: every match is kept.
UniqueKeepsAll(all_matches, unique_matches) == unique_matches \o all_matches

\* lines 469-472: the loop over all_matches, unique_matches built so far.
RECURSIVE Unique(_, _)
Unique(all_matches, unique_matches) ==
    IF all_matches = <<>> THEN unique_matches
    ELSE Unique(Tail(all_matches),
                IF InSeq(Head(all_matches), unique_matches) THEN unique_matches
                ELSE Append(unique_matches, Head(all_matches)))

\* "unique_matches[:max_results]", max_results >= 0
Slice(list, n) == SubSeq(list, 1, IF n < Len(list) THEN n ELSE Len(list))

\* get_suggestions(partial_text, max_results) on the corpus c.
GetSuggestions(c, partial_text, max_results) ==
    IF partial_text = <<>> THEN <<>>
    ELSE Slice(Unique(AllMatches(c, Lower(partial_text)), <<>>), max_results)

\* ---------------------------------------------------------------- helpers
Goto(t, l) == pc' = [pc EXCEPT ![t] = l]

NoPrompt == [alive |-> FALSE, winref |-> FALSE, is_open |-> FALSE, result |-> None]

\* threading.Thread.is_alive()
IsAlive(k) == k # 0 /\ pc[Job(k)] \notin {None, "done"}

\* Where each context continues after load_latest_ocr_file / load_data_files.
AfterLo(t) ==
    IF running[t] = "capture" THEN "ld_clear"
    ELSE IF running[t] = "suggestion" THEN "sg_state" ELSE "j_clear"
AfterLd(t) == IF running[t] = "capture" THEN "cap_mark" ELSE "lo_find"

\* The context that takes the next hotkey callback.
Free(h) == pc[h] = "idle" /\ \A g \in Hot : g[2] < h[2] => pc[g] # "idle"

Run(h, what) == running' = [running EXCEPT ![h] = what]

LoadingData(t) == pc[t] \in {"ld_line", "ld_plain", "ld_sep"}

\* ScreenshotCapture has capture_full_screen only: capture_active_window is
\* an AttributeError; capture_full_screen raises when the grab or the save does.
CaptureOutcomes(mode) == IF mode = "active_window" THEN {FALSE} ELSE {TRUE, FALSE}

\* SuggestionWindow.hide(event=None, text_to_insert=...) while a window exists.
HideVars(text) ==
    /\ is_visible' = FALSE
    /\ text_to_insert' = IF text # None THEN text ELSE text_to_insert
    /\ afterQ' = Append(afterQ, "hide")

\* -------------------------------------------------------------------- Init
\* After ScreenshotOCRTool.__init__ and the start-up part of start(): the
\* popup window is created and withdrawn, nothing runs yet.
Machine(spent) ==
    /\ state = IDLE
    /\ stop_ocr = FALSE
    /\ ocr_thread = 0
    /\ pc = [t \in Threads |-> IF t \in Jobs THEN None ELSE "idle"]
    /\ running = [t \in Threads |-> IF t \in Jobs THEN "job" ELSE None]
    /\ hmode = [h \in Hot |-> None]
    /\ lfile = [t \in Threads |-> 0]
    /\ captures = spent
    /\ selRef = None
    /\ selObj = [h \in Hot |-> NoPrompt]
    /\ window = "withdrawn"
    /\ is_visible = FALSE
    /\ ocr_in_progress = FALSE
    /\ text_to_insert = None
    /\ afterQ = <<>>
    /\ mpc = "update"
    /\ qobs = <<>>
    /\ dataVer = 1
    /\ artifacts = <<>>
    /\ swList = [j \in Jobs |-> <<>>]
    /\ show_suggestion_window = FALSE
    /\ hide_suggestion_window = FALSE
    /\ ret = <<>>

\* The same with the corpus that SuggestionManager.__init__ has loaded.
Start(spent) ==
    /\ Machine(spent)
    /\ words = InitialCollections.words
    /\ phrases = InitialCollections.phrases
    /\ lines = InitialCollections.lines
    /\ blocks = InitialCollections.blocks

\* No SuggestionManager call is taken on its own.
NoCall == [op |-> None]

\* The output directory is empty and no call is taken on its own.
Init == Start(0) /\ outdir = {} /\ arg = NoCall

\* The same start with all but one of the captures of the bound spent.
InitStore == Start(MaxCaptures - 1) /\ outdir = {} /\ arg = NoCall

\* --------------------------------- SuggestionManager calls, as single steps
\* load_latest_ocr_file
LoadLatestOcrFile(t) ==
    /\ pc[t] = "lo_find"
    /\ SetCollections(IF LatestFile(artifacts) = 0 THEN Collections
                      ELSE ParseOcrFile(Collections, LatestFile(artifacts)))
    /\ Goto(t, AfterLo(t))
    /\ UNCHANGED <<state, stop_ocr, ocr_thread, hmode, lfile, running, captures, selRef, selObj,
                   popup, mpc, qobs, dataVer, artifacts, aux>>

\* load_data_files
LoadDataFiles(t) ==
    /\ pc[t] = "ld_clear"
    /\ SetCollections(ParseDataFiles(Collections, dataVer))
    /\ Goto(t, AfterLd(t))
    /\ UNCHANGED <<state, stop_ocr, ocr_thread, hmode, lfile, running, captures, selRef, selObj,
                   popup, mpc, qobs, dataVer, artifacts, aux>>

\* ------------------------- SuggestionManager calls, statement by statement
\* load_latest_ocr_file, lines 45-66.
LoFind(t) ==
    /\ pc[t] = "lo_find"
    /\ IF LatestFile(artifacts) # 0
       THEN /\ lfile' = [lfile EXCEPT ![t] = LatestFile(artifacts)]
            /\ Goto(t, "po_clear")
       ELSE /\ Goto(t, AfterLo(t))
            /\ UNCHANGED lfile
    /\ UNCHANGED <<state, running, stop_ocr, ocr_thread, hmode, captures, selRef, selObj,
                   popup, mpc, qobs, corpus, dataVer, artifacts, aux>>

\* _parse_ocr_file, lines 93-98: read the file (an error returns False), then
\* reset words and phrases.
PoClear(t) ==
    /\ pc[t] = "po_clear"
    /\ IF \E i \in 1..Len(artifacts) : artifacts[i].id = lfile[t]
       THEN /\ SetCollections(OcrReset(Collections))
            /\ Goto(t, "po_words")
            /\ UNCHANGED lfile
       ELSE /\ Goto(t, AfterLo(t))
            /\ lfile' = [lfile EXCEPT ![t] = 0]
            /\ UNCHANGED corpus
    /\ UNCHANGED <<state, running, stop_ocr, ocr_thread, hmode, captures, selRef, selObj,
                   popup, mpc, qobs, dataVer, artifacts, aux>>

\* _parse_ocr_file, lines 101-150.
PoWords(t) ==
    /\ pc[t] = "po_words"
    /\ SetCollections(OcrWords(Collections, lfile[t]))
    /\ Goto(t, "po_phrases")
    /\ UNCHANGED <<state, stop_ocr, ocr_thread, hmode, lfile, running, captures, selRef, selObj,
                   popup, mpc, qobs, dataVer, artifacts, aux>>

\* _parse_ocr_file, lines 153-165.
PoPhrases(t) ==
    /\ pc[t] = "po_phrases"
    /\ SetCollections(OcrPhrases(Collections, lfile[t]))
    /\ lfile' = [lfile EXCEPT ![t] = 0]
    /\ Goto(t, AfterLo(t))
    /\ UNCHANGED <<state, running, stop_ocr, ocr_thread, hmode, captures, selRef, selObj,
                   popup, mpc, qobs, dataVer, artifacts, aux>>

\* load_data_files, lines 185-188.
LdClear(t) ==
    /\ pc[t] = "ld_clear"
    /\ SetCollections(DataReset(Collections))
    /\ Goto(t, "ld_line")
    /\ UNCHANGED <<state, stop_ocr, ocr_thread, hmode, lfile, running, captures, selRef, selObj,
                   popup, mpc, qobs, dataVer, artifacts, aux>>

\* load_data_files, lines 202-217, file by file: the _line.txt file,
LdLine(t) ==
    /\ pc[t] = "ld_line"
    /\ SetCollections(ParseLineFile(Collections, dataVer))
    /\ Goto(t, "ld_plain")
    /\ UNCHANGED <<state, stop_ocr, ocr_thread, hmode, lfile, running, captures, selRef, selObj,
                   popup, mpc, qobs, dataVer, artifacts, aux>>

\* the plain .txt file,
LdPlain(t) ==
    /\ pc[t] = "ld_plain"
    /\ SetCollections(ParseDataFile(Collections, dataVer))
    /\ Goto(t, "ld_sep")
    /\ UNCHANGED <<state, stop_ocr, ocr_thread, hmode, lfile, running, captures, selRef, selObj,
                   popup, mpc, qobs, dataVer, artifacts, aux>>

\* the _separator.txt file.
LdSep(t) ==
    /\ pc[t] = "ld_sep"
    /\ SetCollections(ParseSeparatorFile(Collections, dataVer))
    /\ Goto(t, AfterLd(t))
    /\ UNCHANGED <<state, stop_ocr, ocr_thread, hmode, lfile, running, captures, selRef, selObj,
                   popup, mpc, qobs, dataVer, artifacts, aux>>
\* ------------------------------------------------- handle_capture_hotkey
\* IDLE branch: the callback goes on to _show_selection_window.
CaptureHotkeyIdle(h) ==
    /\ Free(h)
    /\ state = IDLE
    /\ Goto(h, "sel_begin")
    /\ Run(h, "capture")
    /\ UNCHANGED <<state, stop_ocr, ocr_thread, hmode, lfile, captures, selRef, selObj,
                   popup, mpc, qobs, corpus, dataVer, artifacts, aux>>

\* SELECTION branch: close the open prompt (SelectionWindow.close ->
\* _on_escape), drop the reference, state = IDLE.
CaptureHotkeySelection(h) ==
    /\ Free(h)
    /\ state = SELECTION
    /\ IF selRef # None /\ selObj[selRef].is_open /\ selObj[selRef].winref
       THEN selObj' = [selObj EXCEPT ![selRef] =
                         [@ EXCEPT !.result = None, !.alive = FALSE, !.winref = FALSE]]
       ELSE UNCHANGED selObj
    /\ selRef' = IF selRef # None /\ selObj[selRef].is_open THEN None ELSE selRef
    /\ state' = IDLE
    /\ UNCHANGED <<stop_ocr, ocr_thread, pc, hmode, lfile, running, captures,
                   popup, mpc, qobs, corpus, dataVer, artifacts, aux>>

\* SUGGESTING branch: ask a live job to stop, state = IDLE.
CaptureHotkeySuggesting(h) ==
    /\ Free(h)
    /\ state = SUGGESTING
    /\ stop_ocr' = IF IsAlive(ocr_thread) THEN TRUE ELSE stop_ocr
    /\ state' = IDLE
    /\ UNCHANGED <<ocr_thread, pc, hmode, lfile, running, captures, selRef, selObj,
                   popup, mpc, qobs, corpus, dataVer, artifacts, aux>>

\* A faulty fourth branch: the capture hotkey asks the job to stop.
CaptureHotkeyCapturingStops(h) ==
    /\ Free(h)
    /\ state = CAPTURING
    /\ stop_ocr' = TRUE
    /\ UNCHANGED <<state, ocr_thread, pc, hmode, lfile, running, captures, selRef, selObj,
                   popup, mpc, qobs, corpus, dataVer, artifacts>>

\* CAPTURING: "do nothing (let the capture complete)"; no branch of
\* handle_capture_hotkey is taken.
CaptureHotkeyNoBranch(h) ==
    /\ Free(h)
    /\ state = CAPTURING
    /\ UNCHANGED <<state, stop_ocr, ocr_thread, pc, hmode, lfile, running, captures, selRef,
                   selObj, popup, mpc, qobs, corpus, dataVer, artifacts>>

CaptureHotkeyCapturing(h) == CaptureHotkeyNoBranch(h) /\ UNCHANGED aux

\* _show_selection_window, lines 125-133: hide a visible popup, state = SELECTION.
SelBegin(h) ==
    /\ pc[h] = "sel_begin"
    /\ IF is_visible /\ window # None
       THEN HideVars(None)
       ELSE UNCHANGED <<is_visible, text_to_insert, afterQ>>
    /\ state' = SELECTION
    /\ Goto(h, "sel_create")
    /\ UNCHANGED <<stop_ocr, ocr_thread, hmode, lfile, running, captures, selRef, selObj,
                   window, ocr_in_progress, mpc, qobs, corpus, dataVer, artifacts, aux>>

\* lines 136-140: the prompt is created, referenced and shown; the callback
\* blocks in wait_window.
SelCreate(h) ==
    /\ pc[h] = "sel_create"
    /\ selObj' = [selObj EXCEPT ![h] =
                    [alive |-> TRUE, winref |-> TRUE, is_open |-> TRUE, result |-> None]]
    /\ selRef' = h
    /\ Goto(h, "sel_wait")
    /\ UNCHANGED <<state, stop_ocr, ocr_thread, hmode, lfile, running, captures,
                   popup, mpc, qobs, corpus, dataVer, artifacts, aux>>

\* SelectionWindow._on_key_1 / _on_key_2: the user picks a mode.
PromptKey(h, mode) ==
    /\ pc[h] = "sel_wait"
    /\ selObj[h].alive
    /\ captures < MaxCaptures
    /\ captures' = captures + 1
    /\ selObj' = [selObj EXCEPT ![h] = [@ EXCEPT !.result = mode, !.alive = FALSE]]
    /\ UNCHANGED <<state, stop_ocr, ocr_thread, pc, hmode, lfile, running, selRef,
                   popup, mpc, qobs, corpus, dataVer, artifacts, aux>>

\* SelectionWindow._on_escape: the user cancels the prompt.
PromptEscape(h) ==
    /\ pc[h] = "sel_wait"
    /\ selObj[h].alive
    /\ selObj' = [selObj EXCEPT ![h] =
                    [@ EXCEPT !.result = None, !.alive = FALSE, !.winref = FALSE]]
    /\ UNCHANGED <<state, stop_ocr, ocr_thread, pc, hmode, lfile, running, captures, selRef,
                   popup, mpc, qobs, corpus, dataVer, artifacts, aux>>

\* A faulty return from the prompt: a cancelled prompt is taken for a choice
\* of the whole screen.
SelReturnAlwaysCaptures(h) ==
    /\ pc[h] = "sel_wait"
    /\ ~selObj[h].alive
    /\ selRef' = None
    /\ selObj' = [selObj EXCEPT ![h] = NoPrompt]
    /\ state' = CAPTURING
    /\ hmode' = [hmode EXCEPT ![h] =
                    IF selObj[h].result = None THEN "whole_screen" ELSE selObj[h].result]
    /\ Goto(h, "cap_begin")
    /\ UNCHANGED <<stop_ocr, ocr_thread, lfile, running, captures,
                   popup, mpc, qobs, corpus, dataVer, artifacts, aux>>

\* wait_window returns: SelectionWindow.show lines 143-149, then
\* _show_selection_window lines 143-155 up to the call of capture_and_process.
SelReturn(h) ==
    /\ pc[h] = "sel_wait"
    /\ ~selObj[h].alive
    /\ selRef' = None
    /\ selObj' = [selObj EXCEPT ![h] = NoPrompt]
    /\ IF selObj[h].result = None
       THEN /\ state' = IDLE
            /\ Goto(h, "idle")
            /\ Run(h, None)
            /\ UNCHANGED hmode
       ELSE /\ state' = CAPTURING
            /\ hmode' = [hmode EXCEPT ![h] = selObj[h].result]
            /\ Goto(h, "cap_begin")
            /\ UNCHANGED running
    /\ UNCHANGED <<stop_ocr, ocr_thread, lfile, captures,
                   popup, mpc, qobs, corpus, dataVer, artifacts, aux>>

\* capture_and_process, lines 165-177: reset the stop flag, capture.
CapBegin(h) ==
    /\ pc[h] = "cap_begin"
    /\ stop_ocr' = FALSE
    /\ \E ok \in CaptureOutcomes(hmode[h]) :
          Goto(h, IF ok THEN "lo_find" ELSE "cap_except")
    /\ hmode' = [hmode EXCEPT ![h] = None]
    /\ UNCHANGED <<state, ocr_thread, lfile, running, captures, selRef, selObj,
                   popup, mpc, qobs, corpus, dataVer, artifacts, aux>>

\* A faulty marking: the marker is set and the state left as it is.
CapMarkKeepsState(h) ==
    /\ pc[h] = "cap_mark"
    /\ ocr_in_progress' = TRUE
    /\ Goto(h, "cap_thread")
    /\ UNCHANGED <<state, stop_ocr, ocr_thread, hmode, lfile, running, captures, selRef, selObj,
                   window, is_visible, text_to_insert, afterQ, mpc, qobs, corpus,
                   dataVer, artifacts, aux>>

\* lines 190-194 (after load_latest_ocr_file and load_data_files).
CapMark(h) ==
    /\ pc[h] = "cap_mark"
    /\ ocr_in_progress' = TRUE
    /\ state' = SUGGESTING
    /\ Goto(h, "cap_thread")
    /\ UNCHANGED <<stop_ocr, ocr_thread, hmode, lfile, running, captures, selRef, selObj,
                   window, is_visible, text_to_insert, afterQ, mpc, qobs, corpus,
                   dataVer, artifacts, aux>>

\* lines 203-208: the job thread is created and started.
CapThread(h) ==
    /\ pc[h] = "cap_thread"
    /\ LET k == Cardinality({j \in Jobs : pc[j] # None}) + 1
       IN  /\ ocr_thread' = k
           /\ pc' = [pc EXCEPT ![h] = "idle", ![Job(k)] = "j_check"]
    /\ Run(h, None)
    /\ UNCHANGED <<state, stop_ocr, hmode, lfile, captures, selRef, selObj,
                   popup, mpc, qobs, corpus, dataVer, artifacts, aux>>

\* lines 210-215: the except block of capture_and_process.
CapExcept(h) ==
    /\ pc[h] = "cap_except"
    /\ ocr_in_progress' = FALSE
    /\ Goto(h, "idle")
    /\ Run(h, None)
    /\ UNCHANGED <<state, stop_ocr, ocr_thread, hmode, lfile, captures, selRef, selObj,
                   window, is_visible, text_to_insert, afterQ, mpc, qobs, corpus,
                   dataVer, artifacts, aux>>

\* ---------------------------------------------- handle_suggestion_hotkey
\* A faulty IDLE branch: the in-progress marker is left as it is.
SuggestionHotkeyIdleKeepsMarker(s) ==
    /\ Free(s)
    /\ state = IDLE
    /\ Goto(s, "ld_clear")
    /\ Run(s, "suggestion")
    /\ UNCHANGED <<state, stop_ocr, ocr_thread, hmode, lfile, captures, selRef, selObj,
                   popup, mpc, qobs, corpus, dataVer, artifacts, aux>>

\* IDLE branch, line 295: clear the in-progress marker; load_data_files and
\* load_latest_ocr_file follow.
SuggestionHotkeyIdle(s) ==
    /\ Free(s)
    /\ state = IDLE
    /\ ocr_in_progress' = FALSE
    /\ Goto(s, "ld_clear")
    /\ Run(s, "suggestion")
    /\ UNCHANGED <<state, stop_ocr, ocr_thread, hmode, lfile, captures, selRef, selObj,
                   window, is_visible, text_to_insert, afterQ, mpc, qobs, corpus,
                   dataVer, artifacts, aux>>

\* line 309: state = SUGGESTING, whatever the state is by now.
SgState(s) ==
    /\ pc[s] = "sg_state"
    /\ state' = SUGGESTING
    /\ Goto(s, "idle")
    /\ Run(s, None)
    /\ UNCHANGED <<stop_ocr, ocr_thread, hmode, lfile, captures, selRef, selObj,
                   popup, mpc, qobs, corpus, dataVer, artifacts, aux>>

\* SUGGESTING branch, lines 312-322.
SuggestionHotkeySuggesting(s) ==
    /\ Free(s)
    /\ state = SUGGESTING
    /\ stop_ocr' = IF IsAlive(ocr_thread) THEN TRUE ELSE stop_ocr
    /\ state' = IDLE
    /\ UNCHANGED <<ocr_thread, pc, hmode, lfile, running, captures, selRef, selObj,
                   popup, mpc, qobs, corpus, dataVer, artifacts, aux>>

\* "In other states, do nothing": no branch of handle_suggestion_hotkey is
\* taken.
SuggestionHotkeyNoBranch(s) ==
    /\ Free(s)
    /\ state \in {SELECTION, CAPTURING}
    /\ UNCHANGED <<state, stop_ocr, ocr_thread, pc, hmode, lfile, running, captures, selRef,
                   selObj, popup, mpc, qobs, corpus, dataVer, artifacts>>

SuggestionHotkeyOther(s) == SuggestionHotkeyNoBranch(s) /\ UNCHANGED aux

\* ------------------------------------------- _process_ocr_in_background
\* A faulty check: the job goes on to recognition whatever the flag says.
JobCheckIgnoresFlag(j) ==
    /\ pc[j] = "j_check"
    /\ Goto(j, "j_ocr")
    /\ UNCHANGED <<state, stop_ocr, ocr_thread, hmode, lfile, running, captures, selRef, selObj,
                   popup, mpc, qobs, corpus, dataVer, artifacts, aux>>

\* lines 229-238: the one check of the stop flag.
JobCheck(j) ==
    /\ pc[j] = "j_check"
    /\ IF stop_ocr
       THEN /\ ocr_in_progress' = FALSE
            /\ Goto(j, "done")
       ELSE /\ Goto(j, "j_ocr")
            /\ UNCHANGED ocr_in_progress
    /\ UNCHANGED <<state, stop_ocr, ocr_thread, hmode, lfile, running, captures, selRef, selObj,
                   window, is_visible, text_to_insert, afterQ, mpc, qobs, corpus,
                   dataVer, artifacts, aux>>

\* lines 241-252: process_image returns the text or raises.  With the text,
\* the artifact is written (its modification time is now) and
\* cleanup_old_files runs (no file is an hour old); a raise runs the except
\* block, lines 268-273.
JobOcr(j) ==
    /\ pc[j] = "j_ocr"
    /\ \E ok \in BOOLEAN :
          IF ok
          THEN /\ artifacts' = Append(artifacts, [id |-> j[2], age |-> Fresh])
               /\ Goto(j, "lo_find")
               /\ UNCHANGED ocr_in_progress
          ELSE /\ ocr_in_progress' = FALSE
               /\ Goto(j, "done")
               /\ UNCHANGED artifacts
    /\ UNCHANGED <<state, stop_ocr, ocr_thread, hmode, lfile, running, captures, selRef, selObj,
                   window, is_visible, text_to_insert, afterQ, mpc, qobs, corpus, dataVer, aux>>

\* A faulty completion: the job also asks for the popup by setting the state.
JobClearShowsPopup(j) ==
    /\ pc[j] = "j_clear"
    /\ ocr_in_progress' = FALSE
    /\ state' = SUGGESTING
    /\ Goto(j, "done")
    /\ UNCHANGED <<stop_ocr, ocr_thread, hmode, lfile, running, captures, selRef, selObj,
                   window, is_visible, text_to_insert, afterQ, mpc, qobs, corpus,
                   dataVer, artifacts, aux>>

\* A faulty completion: the job ends and leaves the marker as it is.
JobClearKeepsMarker(j) ==
    /\ pc[j] = "j_clear"
    /\ Goto(j, "done")
    /\ UNCHANGED <<state, stop_ocr, ocr_thread, hmode, lfile, running, captures, selRef, selObj,
                   popup, mpc, qobs, corpus, dataVer, artifacts, aux>>

\* lines 259-266 (after load_latest_ocr_file): clear the marker, end.
JobClear(j) ==
    /\ pc[j] = "j_clear"
    /\ ocr_in_progress' = FALSE
    /\ Goto(j, "done")
    /\ UNCHANGED <<state, stop_ocr, ocr_thread, hmode, lfile, running, captures, selRef, selObj,
                   window, is_visible, text_to_insert, afterQ, mpc, qobs, corpus,
                   dataVer, artifacts, aux>>

\* ------------------- _process_ocr_in_background with cleanup_old_files
\* lines 241-249 where the output directory is not empty: process_image
\* returns the text or raises; the text is saved and cleanup_old_files called.
JobRecognize(j) ==
    /\ pc[j] = "j_ocr"
    /\ \E ok \in BOOLEAN :
          IF ok
          THEN /\ artifacts' = Append(artifacts, [id |-> j[2], age |-> Fresh])
               /\ Goto(j, "sw_list")
               /\ UNCHANGED ocr_in_progress
          ELSE /\ ocr_in_progress' = FALSE
               /\ Goto(j, "done")
               /\ UNCHANGED artifacts
    /\ UNCHANGED <<state, stop_ocr, ocr_thread, hmode, lfile, running, captures, selRef, selObj,
                   window, is_visible, text_to_insert, afterQ, mpc, qobs, corpus, dataVer, aux>>

\* cleanup_old_files, lines 110-117: os.listdir.  The files this run wrote
\* are younger than an hour and nobody deletes them: looking at them changes
\* nothing, and they are left out of the listing.
CleanupList(j) ==
    /\ pc[j] = "sw_list"
    /\ \E l \in Listings({e.name : e \in outdir}) :
          /\ swList' = [swList EXCEPT ![j] = l]
          /\ Goto(j, IF l = <<>> THEN "lo_find" ELSE "sw_file")
    /\ UNCHANGED <<state, stop_ocr, ocr_thread, hmode, lfile, running, captures, selRef, selObj,
                   popup, mpc, qobs, corpus, dataVer, artifacts, outdir, arg, ret, flags>>

\* cleanup_old_files, lines 118-136, for the next name of the listing.
\*   The entry is gone: os.path.isdir is False, and for a .png / .txt name
\*   os.path.getmtime (line 127, outside the try) raises; the exception leaves
\*   cleanup_old_files and runs the except block of the job, lines 268-273.
\*   The entry is there: it is removed if SweepRemoves and os.remove succeeds;
\*   a failing os.remove is caught (lines 135-136).
CleanupFile(j) ==
    /\ pc[j] = "sw_file"
    /\ LET f == Head(swList[j])
           here == {e \in outdir : e.name = f}
       IN  IF here = {} /\ f[2] \in {"png", "txt"}
           THEN /\ ocr_in_progress' = FALSE
                /\ swList' = [swList EXCEPT ![j] = <<>>]
                /\ Goto(j, "done")
                /\ UNCHANGED outdir
           ELSE /\ outdir' = outdir \ {e \in here : SweepRemoves(e) /\ ~e.locked}
                /\ swList' = [swList EXCEPT ![j] = Tail(@)]
                /\ Goto(j, IF Tail(swList[j]) = <<>> THEN "lo_find" ELSE "sw_file")
                /\ UNCHANGED ocr_in_progress
    /\ UNCHANGED <<state, stop_ocr, ocr_thread, hmode, lfile, running, captures, selRef, selObj,
                   window, is_visible, text_to_insert, afterQ, mpc, qobs, corpus,
                   dataVer, artifacts, arg, ret, flags>>

\* ------------------------------------------------------- the main thread
\* root.update() runs the next scheduled Tk callback.
\*   _show_window: map the window, is_visible = True. Its own
\*   self.window.update() (line 260) runs the callbacks still scheduled:
\*   when a _hide_window is among them the window is destroyed there, the
\*   next statement fails on self.window = None, and the except clause
\*   leaves before line 265.
\*   _hide_window: destroy the window (which deletes the callbacks still
\*   scheduled on it), then type text_to_insert.
TkAfter ==
    /\ mpc = "update"
    /\ afterQ # <<>>
    /\ IF Head(afterQ) = "show" /\ ~InSeq("hide", Tail(afterQ))
       THEN /\ window' = "mapped"
            /\ is_visible' = TRUE
            /\ afterQ' = <<>>
            /\ UNCHANGED text_to_insert
       ELSE /\ window' = None
            /\ text_to_insert' = None
            /\ afterQ' = <<>>
            /\ UNCHANGED is_visible
    /\ UNCHANGED <<state, stop_ocr, ocr_thread, pc, hmode, lfile, running, captures, selRef,
                   selObj, ocr_in_progress, mpc, qobs, corpus, dataVer, artifacts, aux>>

\* _on_enter with a non-empty selection: the escape callback (state = IDLE),
\* then hide(None, selected_text).
PopupEnter ==
    /\ mpc = "update"
    /\ window = "mapped"
    /\ Len(afterQ) < MaxAfter
    /\ state' = IDLE
    /\ HideVars("text")
    /\ UNCHANGED <<stop_ocr, ocr_thread, pc, hmode, lfile, running, captures, selRef, selObj,
                   window, ocr_in_progress, mpc, qobs, corpus, dataVer, artifacts, aux>>

\* _on_escape, and _check_focus after a focus loss: the escape callback,
\* then hide(None).
PopupEscape ==
    /\ mpc = "update"
    /\ window = "mapped"
    /\ Len(afterQ) < MaxAfter
    /\ state' = IDLE
    /\ HideVars(None)
    /\ UNCHANGED <<stop_ocr, ocr_thread, pc, hmode, lfile, running, captures, selRef, selObj,
                   window, ocr_in_progress, mpc, qobs, corpus, dataVer, artifacts, aux>>

\* start(), lines 367-378, once root.update() has run the pending callbacks:
\* show the popup when the state is SUGGESTING and it is not visible.
\* Nothing in the loop hides it.
LoopCheck ==
    /\ mpc = "update"
    /\ afterQ = <<>>
    /\ IF state = SUGGESTING /\ ~is_visible
       THEN /\ window' = IF window = None THEN "withdrawn" ELSE window
            /\ afterQ' = Append(afterQ, "show")
       ELSE UNCHANGED <<window, afterQ>>
    /\ UNCHANGED <<state, stop_ocr, ocr_thread, pc, hmode, lfile, running, captures, selRef,
                   selObj, is_visible, ocr_in_progress, text_to_insert, mpc, qobs,
                   corpus, dataVer, artifacts, aux>>

\* _on_input_change with a non-empty text: get_suggestions starts.
PopupType ==
    /\ mpc = "update"
    /\ window = "mapped"
    /\ mpc' = "q_blocks"
    /\ UNCHANGED <<state, stop_ocr, ocr_thread, pc, hmode, lfile, running, captures, selRef,
                   selObj, popup, qobs, corpus, dataVer, artifacts, aux>>

\* get_suggestions, lines 427-430: block_matches built from self.blocks.
QBlocks ==
    /\ mpc = "q_blocks"
    /\ qobs' = <<blocks>>
    /\ mpc' = "q_lines"
    /\ UNCHANGED <<state, stop_ocr, ocr_thread, pc, hmode, lfile, running, captures, selRef,
                   selObj, popup, corpus, dataVer, artifacts, aux>>

\* lines 433-436: line_matches built from self.lines.
QLines ==
    /\ mpc = "q_lines"
    /\ qobs' = Append(qobs, lines)
    /\ mpc' = "q_words"
    /\ UNCHANGED <<state, stop_ocr, ocr_thread, pc, hmode, lfile, running, captures, selRef,
                   selObj, popup, corpus, dataVer, artifacts, aux>>

\* lines 439-456: the word match lists built from self.words.
QWords ==
    /\ mpc = "q_words"
    /\ qobs' = Append(qobs, words)
    /\ mpc' = "q_phrases"
    /\ UNCHANGED <<state, stop_ocr, ocr_thread, pc, hmode, lfile, running, captures, selRef,
                   selObj, popup, corpus, dataVer, artifacts, aux>>

\* lines 450-474: the phrase match lists built from self.phrases; the
\* result is returned and the popup's list filled with it.
QPhrases ==
    /\ mpc = "q_phrases"
    /\ qobs' = <<>>
    /\ mpc' = "update"
    /\ UNCHANGED <<state, stop_ocr, ocr_thread, pc, hmode, lfile, running, captures, selRef,
                   selObj, popup, corpus, dataVer, artifacts, aux>>

\* ---------------------------------------------------------- environment
\* The user edits the reference files (between two reloads).
EditData ==
    /\ dataVer < MaxDataVer
    /\ \A t \in Threads : ~LoadingData(t)
    /\ dataVer' = dataVer + 1
    /\ UNCHANGED <<state, stop_ocr, ocr_thread, pc, hmode, lfile, running, captures, selRef,
                   selObj, popup, mpc, qobs, corpus, artifacts, aux>>

\* More than 60 s pass: every file of the output directory is stale now.
Tick ==
    /\ \E i \in 1..Len(artifacts) : artifacts[i].age = Fresh
    /\ artifacts' = [i \in 1..Len(artifacts) |-> [artifacts[i] EXCEPT !.age = Stale]]
    /\ UNCHANGED <<state, stop_ocr, ocr_thread, pc, running, hmode, lfile, captures, selRef,
                   selObj, popup, mpc, qobs, corpus, dataVer, aux>>

\* Someone else (the user, another program) deletes a file of the output
\* directory.
DeleteFile ==
    /\ \E e \in outdir : ~e.isdir /\ outdir' = outdir \ {e}
    /\ UNCHANGED <<state, stop_ocr, ocr_thread, pc, running, hmode, lfile, captures, selRef,
                   selObj, popup, mpc, qobs, corpus, dataVer, artifacts, swList, arg, ret, flags>>

\* ------------------------------------- SuggestionManager calls on their own
\* Lists of at most n entries of a pool, repetitions allowed.
ListsOf(pool, n) == UNION {[1..m -> pool] : m \in 0..n}

\* Dicts of at most n items of a pool, as lists of items with distinct keys.
DictsOf(pool, n) ==
    {d \in ListsOf(pool, n) : \A i, k \in 1..Len(d) : i # k => d[i].key # d[k].key}

WordPool == {Str_abcdef, Str_xabc, Str_kAtAbcDotd, Str_abcDotd}
PhrasePool == {Str_Abc_d, Str_x_abc}
LinePool == {Str_xabc}
BlockPool == {[key |-> Str_K, body |-> Str_K_abC],
              [key |-> Str_abcdef, body |-> Str_abcdef_k]}
QueryPool == {<<>>, Str_abc, Str_ABC, Str_abcDot, Str_Atx}

\* get_suggestions(partial_text, max_results) called on a corpus.
QueryCalls ==
    [op : {"get_suggestions"},
     corpus : [words : ListsOf(WordPool, MaxWords),
               phrases : ListsOf(PhrasePool, MaxPhrases),
               lines : ListsOf(LinePool, MaxLines),
               blocks : DictsOf(BlockPool, MaxBlocks)],
     partial_text : QueryPool,
     max_results : 0..MaxResults]

\* load_latest_ocr_file() called at current_time on an output directory
\* whose newest .txt file was written at file_time.
LoadCalls ==
    [op : {"load_latest_ocr_file"}, file_time : {0}, current_time : 0..MaxAge]

CallGetSuggestions ==
    /\ arg.op = "get_suggestions"
    /\ ret = <<>>
    /\ ret' = <<GetSuggestions(arg.corpus, arg.partial_text, arg.max_results)>>
    /\ UNCHANGED <<state, stop_ocr, ocr_thread, pc, running, hmode, lfile, captures, selRef,
                   selObj, popup, mpc, qobs, corpus, dataVer, artifacts, outdir, swList, arg, flags>>

CallLoadLatestOcrFile ==
    /\ arg.op = "load_latest_ocr_file"
    /\ ret = <<>>
    /\ LET latest == LatestFile(FilesAt(1, arg.file_time, arg.current_time))
       IN  /\ SetCollections(IF latest = 0 THEN Collections
                             ELSE ParseOcrFile(Collections, latest))
           /\ ret' = <<latest # 0>>
    /\ UNCHANGED <<state, stop_ocr, ocr_thread, pc, running, hmode, lfile, captures, selRef,
                   selObj, popup, mpc, qobs, dataVer, artifacts, outdir, swList, arg, flags>>

InitLookup ==
    /\ Start(0)
    /\ outdir = {}
    /\ arg \in QueryCalls \cup LoadCalls

NextLookup == CallGetSuggestions \/ CallLoadLatestOcrFile

SpecLookup == InitLookup /\ [][NextLookup]_vars

\* ------------------------------------------------------------ specifications
\* A capture-hotkey callback past the dispatch of handle_capture_hotkey:
\* _show_selection_window and capture_and_process; the user at the prompt.
CaptureSteps(h) ==
    \/ SelBegin(h)
    \/ SelCreate(h)
    \/ PromptEscape(h)
    \/ SelReturn(h)
    \/ CapBegin(h)
    \/ CapMark(h)
    \/ CapThread(h)
    \/ CapExcept(h)
    \/ \E mode \in {"whole_screen", "active_window"} : PromptKey(h, mode)

\* One capture-hotkey callback: handle_capture_hotkey and what it calls.
CaptureCallback(h) ==
    \/ CaptureHotkeyIdle(h)
    \/ CaptureHotkeySelection(h)
    \/ CaptureHotkeySuggesting(h)
    \/ CaptureHotkeyCapturing(h)
    \/ CaptureSteps(h)

\* The suggestion-hotkey callback: handle_suggestion_hotkey.
SuggestionCallback(s) ==
    \/ SuggestionHotkeyIdle(s)
    \/ SuggestionHotkeySuggesting(s)
    \/ SuggestionHotkeyOther(s)
    \/ SgState(s)

\* A recognition job: _process_ocr_in_background.
JobThread(j) ==
    \/ JobCheck(j)
    \/ JobOcr(j)
    \/ JobClear(j)

\* The main thread, the popup's callbacks included.
MainThread ==
    \/ TkAfter
    \/ PopupEnter
    \/ PopupEscape
    \/ LoopCheck

\* The orchestrator, every SuggestionManager call taken as one step.
Next ==
    \/ \E h \in Hot : CaptureCallback(h)
    \/ \E s \in Hot : SuggestionCallback(s)
    \/ \E j \in Jobs : JobThread(j)
    \/ MainThread
    \/ \E t \in Threads : LoadLatestOcrFile(t) \/ LoadDataFiles(t)
    \/ Tick

Spec == Init /\ [][Next]_vars

\* The main thread answering a key typed into the popup: _on_input_change
\* and get_suggestions, statement by statement.
Query ==
    \/ PopupType
    \/ QBlocks
    \/ QLines
    \/ QWords
    \/ QPhrases

\* The SuggestionManager loaders, statement by statement.
Loader(t) ==
    \/ LoFind(t)
    \/ PoClear(t)
    \/ PoWords(t)
    \/ PoPhrases(t)
    \/ LdClear(t)
    \/ LdLine(t)
    \/ LdPlain(t)
    \/ LdSep(t)

\* Callbacks delivered one at a time, on one context.  No callback is then
\* delivered while the prompt is open, so the SELECTION branch of
\* handle_capture_hotkey is never taken.
SerialHot == {<<"hk", 1>>}

SerialCallback(h) ==
    \/ CaptureHotkeyIdle(h)
    \/ CaptureHotkeySuggesting(h)
    \/ CaptureHotkeyCapturing(h)
    \/ CaptureSteps(h)
    \/ SuggestionCallback(h)

\* The orchestrator with serial callbacks.
NextSerial ==
    \/ \E h \in SerialHot : SerialCallback(h)
    \/ \E j \in Jobs : JobThread(j)
    \/ MainThread
    \/ \E t \in Threads : LoadLatestOcrFile(t) \/ LoadDataFiles(t)
    \/ Tick

SpecSerial == Init /\ [][NextSerial]_vars

\* The corpus and its readers: serial callbacks and one capture, the loaders
\* and the query taken statement by statement, the reference files edited
\* between reloads.
NextStore ==
    \/ \E h \in SerialHot : SerialCallback(h)
    \/ \E j \in Jobs : JobThread(j)
    \/ MainThread
    \/ Query
    \/ \E t \in Threads : Loader(t)
    \/ EditData

SpecStore == InitStore /\ [][NextStore]_vars

\* A recognition job whose output directory holds older entries.
SweepJob(j) ==
    \/ JobCheck(j)
    \/ JobRecognize(j)
    \/ CleanupList(j)
    \/ CleanupFile(j)
    \/ JobClear(j)

\* The output directory starts with up to MaxFiles entries of earlier runs.
InitSweep ==
    /\ Start(0)
    /\ outdir \in {d \in SUBSET OldEntries : Cardinality(d) <= MaxFiles}
    /\ arg = NoCall

\* The orchestrator with serial callbacks and the retention sweep, file by
\* file; the run is shorter than a minute.
NextSweep ==
    \/ \E h \in SerialHot : SerialCallback(h)
    \/ \E j \in Jobs : SweepJob(j)
    \/ MainThread
    \/ \E t \in Threads : LoadLatestOcrFile(t) \/ LoadDataFiles(t)
    \/ DeleteFile

\* A thread that can go on does go on: the job threads, and the code of a
\* callback that does not wait for the user.
FairSweep ==
    /\ \A j \in Jobs : WF_vars(SweepJob(j) \/ LoadLatestOcrFile(j))
    /\ \A h \in SerialHot :
          WF_vars(CapBegin(h) \/ CapMark(h) \/ CapThread(h) \/ CapExcept(h)
                    \/ LoadLatestOcrFile(h) \/ LoadDataFiles(h))

SpecSweep == InitSweep /\ [][NextSweep]_vars

\* The same with at most the first of the entries in the output directory,
\* and every thread going on.
InitLive ==
    /\ Start(0)
    /\ outdir \in SUBSET {e \in OldEntries : e.name[1] = 1}
    /\ arg = NoCall

SpecLive == InitLive /\ [][NextSweep]_vars /\ FairSweep

\* ------------------------------ the loaders and parsers, character by character
\* The files of the data directory and of the output directory, their names
\* and their contents as strings.
Str_contact == <<"C", "o", "n", "t", "a", "c", "t", ":", " ", "f", "r", "a",
    "n", "k", ".", "s", "c", "h", "n", "e", "p", "f", "@", "e", "x", "a",
    "m", "p", "l", "e", ".", "c", "o", "m", " ", "f", "o", "r", " ", "d",
    "e", "t", "a", "i", "l", "s">>
Str_email == <<"f", "r", "a", "n", "k", ".", "s", "c", "h", "n", "e", "p",
    "f", "@", "e", "x", "a", "m", "p", "l", "e", ".", "c", "o", "m">>
Str_username == <<"f", "r", "a", "n", "k", ".", "s", "c", "h", "n", "e", "p",
    "f">>
Str_frank == <<"f", "r", "a", "n", "k">>
Str_domain == <<"e", "x", "a", "m", "p", "l", "e", ".", "c", "o", "m">>
Str_ab == <<"a", "b">>
Str_ab_cd_ab_cd == <<"a", "b", " ", "c", "d", " ", "a", "b", " ", "c", "d">>
Str_tsv == <<"a", "b", "\t", "c", "d", "\n", "a", "b", "\t", "K", "\n">>
Str_csv == <<"c", "d", ",", " ", "x", "\n">>
Str_lines == <<"a", "b", "c", "\n", " ", "a", "b", "c", " ", "\n", "\n", "K",
    " ", "d", "\n">>
Str_blocks == <<"K", "\n", "a", "b", "|", "|", "K", "\n", "c", "d", "|", "|",
    " ", "\n", "|", "|", "K", " ", "(", "2", ")", "\n", "x">>
Str_block == <<"K", "\n", "z">>
Name_txt == <<"a", ".", "t", "x", "t">>
Name_b_txt == <<"b", ".", "t", "x", "t">>
Name_tsv == <<"a", ".", "t", "s", "v">>
Name_csv == <<"a", ".", "c", "s", "v">>
Name_line_txt == <<"a", "_", "l", "i", "n", "e", ".", "t", "x", "t">>
Name_separator_txt == <<"a", "_", "s", "e", "p", "a", "r", "a", "t", "o",
    "r", ".", "t", "x", "t">>
Name_b_separator_txt == <<"b", "_", "s", "e", "p", "a", "r", "a", "t", "o",
    "r", ".", "t", "x", "t">>
Suffix_txt == <<".", "t", "x", "t">>
Suffix_tsv == <<".", "t", "s", "v">>
Suffix_csv == <<".", "c", "s", "v">>
Suffix_line_txt == <<"_", "l", "i", "n", "e", ".", "t", "x", "t">>
Suffix_separator_txt == <<"_", "s", "e", "p", "a", "r", "a", "t", "o", "r",
    ".", "t", "x", "t">>

\* Calls of one run, and files in the data directory.
MaxCalls == 2
MaxDataFiles == 2

Letters ==
    {"a", "b", "c", "d", "e", "f", "g", "h", "i", "j", "k", "l", "m", "n", "o", "p",
     "q", "r", "s", "t", "u", "v", "w", "x", "y", "z", "A", "B", "C", "G", "H", "K"}
Digits == {"0", "1", "2", "3", "4", "5", "6", "7", "8", "9"}
Whitespace == {" ", "\n", "\t"}

\* \w
IsWordChar(ch) == ch \in Letters \cup Digits \cup {"_"}

\* The k-th smallest of a set of positions.
Nth(S, k) == CHOOSE x \in S : Cardinality({y \in S : y < x}) = k - 1

\* str.endswith(suffix)
EndsWith(str, suffix) ==
    /\ Len(suffix) <= Len(str)
    /\ SubSeq(str, Len(str) - Len(suffix) + 1, Len(str)) = suffix

\* str.split(sep), re.split('[...]', str): the pieces between the one-character
\* separators, the empty pieces included.
SplitOn(str, seps) ==
    LET cuts == {i \in 1..Len(str) : str[i] \in seps}
        n == Cardinality(cuts)
        cut(k) == IF k = 0 THEN 0 ELSE IF k = n + 1 THEN Len(str) + 1 ELSE Nth(cuts, k)
    IN  [k \in 1..(n + 1) |-> SubSeq(str, cut(k - 1) + 1, cut(k) - 1)]

\* str.split(): the non-empty pieces between whitespace.
SplitWs(str) == SelectSeq(SplitOn(str, Whitespace), LAMBDA piece : piece # <<>>)

\* content.split('||'); no content here has three bars in a row.
SplitBars(content) ==
    LET cuts == {i \in 1..(Len(content) - 1) : content[i] = "|" /\ content[i + 1] = "|"}
        n == Cardinality(cuts)
        from(k) == IF k = 1 THEN 1 ELSE Nth(cuts, k - 1) + 2
        to(k) == IF k = n + 1 THEN Len(content) ELSE Nth(cuts, k) - 1
    IN  [k \in 1..(n + 1) |-> SubSeq(content, from(k), to(k))]

\* str.strip()
Strip(str) ==
    LET ink == {i \in 1..Len(str) : str[i] \notin Whitespace}
    IN  IF ink = {} THEN <<>> ELSE SubSeq(str, Nth(ink, 1), Nth(ink, Cardinality(ink)))

\* The lists of a list of lists, one after the other.
RECURSIVE ConcatAll(_)
ConcatAll(lists) ==
    IF lists = <<>> THEN <<>> ELSE Head(lists) \o ConcatAll(Tail(lists))

\* "for x in xs: if x not in self.xs: self.xs.append(x)"
RECURSIVE AppendAllNew(_, _)
AppendAllNew(s, xs) ==
    IF xs = <<>> THEN s ELSE AppendAllNew(AppendNew(s, Head(xs)), Tail(xs))

\* re.findall(r'\b\w+\b', content): the maximal runs of word characters.
FindWords(content) ==
    LET n == Len(content)
        starts == {s \in 1..n : IsWordChar(content[s])
                                  /\ (s = 1 \/ ~IsWordChar(content[s - 1]))}
        end(s) == CHOOSE e \in s..n :
                     /\ \A i \in s..e : IsWordChar(content[i])
                     /\ (e = n \/ ~IsWordChar(content[e + 1]))
    IN  [k \in 1..Cardinality(starts) |->
            SubSeq(content, Nth(starts, k), end(Nth(starts, k)))]

\* The character classes of the email pattern, line 105.
IsLocalChar(ch) == ch \in Letters \cup Digits \cup {".", "_", "%", "+", "-"}
IsDomainChar(ch) == ch \in Letters \cup Digits \cup {".", "-"}
IsTldChar(ch) == ch \in Letters \cup {"|"}

\* \b between the characters i - 1 and i of content.
Boundary(content, i) ==
    LET w(k) == k >= 1 /\ k <= Len(content) /\ IsWordChar(content[k])
    IN  w(i - 1) # w(i)

\* Where a match of the email pattern around the "@" at position at begins:
\* local characters up to the "@", the first one after a \b.
EmailStarts(content, at) ==
    {s \in 1..(at - 1) : /\ \A i \in s..(at - 1) : IsLocalChar(content[i])
                         /\ Boundary(content, s)}

\* Where it ends: domain characters, a dot, two or more letters, a \b.
EmailEnds(content, at) ==
    {e \in (at + 4)..Len(content) :
        /\ Boundary(content, e + 1)
        /\ \E dot \in (at + 2)..(e - 2) :
              /\ content[dot] = "."
              /\ \A i \in (at + 1)..(dot - 1) : IsDomainChar(content[i])
              /\ \A i \in (dot + 1)..e : IsTldChar(content[i])}

\* re.findall of the email pattern, line 105: the leftmost start and, the
\* quantifiers being greedy, the rightmost end.  No two matches overlap in
\* the contents here.
FindEmails(content) ==
    LET ats == {at \in 1..Len(content) : /\ content[at] = "@"
                                         /\ EmailStarts(content, at) # {}
                                         /\ EmailEnds(content, at) # {}}
        match(at) == SubSeq(content, Nth(EmailStarts(content, at), 1),
                            Nth(EmailEnds(content, at),
                                Cardinality(EmailEnds(content, at))))
    IN  [k \in 1..Cardinality(ats) |-> match(Nth(ats, k))]

\* line 141
TldStopList == {<<"c", "o", "m">>, <<"o", "r", "g">>, <<"n", "e", "t">>,
                <<"e", "d", "u">>, <<"g", "o", "v">>, <<"i", "o">>}

\* _parse_ocr_file, lines 107-142: what one email address appends to
\* self.words, in this order and without a look at what is there already.
EmailWords(email) ==
    LET at == Nth({i \in 1..Len(email) : email[i] = "@"}, 1)
        username == SubSeq(email, 1, at - 1)
        domain == SubSeq(email, at + 1, Len(email))
        parts == SelectSeq(SplitOn(username, {"."}), LAMBDA part : Len(part) > 1)
        partial == IF In(<<".">>, username)
                   THEN [i \in 1..Len(parts) |-> parts[i] \o <<"@">> \o domain]
                   ELSE <<>>
        username_parts == SelectSeq(SplitOn(username, {".", "_", "-"}),
                                    LAMBDA part : Len(part) > 2)
        domain_parts == SelectSeq(SplitOn(domain, {"."}),
                                  LAMBDA part : Len(part) > 2
                                                  /\ Lower(part) \notin TldStopList)
    IN  <<email, username>> \o partial \o username_parts \o <<domain>> \o domain_parts

\* words_list[i] ... words_list[i+k] joined by single spaces.
RECURSIVE JoinWords(_)
JoinWords(words_list) ==
    IF Len(words_list) = 1 THEN Head(words_list)
    ELSE Head(words_list) \o <<" ">> \o JoinWords(Tail(words_list))

\* lines 154-163 and 386-401: the 2-, 3- and 4-word phrases that begin at
\* each word, in the order of the loop.
PhrasesOf(words_list) ==
    LET n == Len(words_list)
        upto(i) == IF n - i < 3 THEN n - i ELSE 3
        at(i) == [k \in 1..upto(i) |-> JoinWords(SubSeq(words_list, i, i + k))]
    IN  ConcatAll([i \in 1..n |-> at(i)])

\* "list(set(words))": every word once.  The order in which a set of strings
\* is iterated is the same all through one run of the interpreter and
\* differs between runs; it is an input of the run, one of two orders here.
ListOfSet(list, set_order) ==
    LET once == AppendAllNew(<<>>, list)
    IN  IF set_order = "first_seen" THEN once
        ELSE [i \in 1..Len(once) |-> once[Len(once) + 1 - i]]

\* A file is [name, content, error]: error is "none", or "open" when open()
\* or the first read raises, or "later" when a later read raises (a byte
\* that cannot be decoded beyond the first buffer of the text reader: the
\* first line has been delivered by then).
\* f.read() and f.readlines() give everything or raise.
ReadAll(file) == file.error = "none"

\* "for line in f" delivers the lines one by one until a read raises.
LinesRead(file) ==
    LET all == SplitOn(file.content, {"\n"})
    IN  IF file.error = "none" THEN all
        ELSE IF file.error = "open" THEN <<>> ELSE SubSeq(all, 1, 1)

\* _parse_ocr_file on the corpus c.  The contents here hold no "http", so
\* the URL pattern of line 146 finds nothing.
parse_ocr_file(c, file, set_order) ==
    IF ~ReadAll(file) THEN c
    ELSE [c EXCEPT
            !.words = ListOfSet(FindWords(file.content), set_order)
                        \o ConcatAll([i \in 1..Len(FindEmails(file.content)) |->
                                         EmailWords(FindEmails(file.content)[i])]),
            !.phrases = PhrasesOf(SplitWs(file.content))]

\* _parse_line_file
parse_line_file(c, file) ==
    IF ~ReadAll(file) THEN c
    ELSE LET all == SplitOn(file.content, {"\n"})
             stripped == [i \in 1..Len(all) |-> Strip(all[i])]
         IN  [c EXCEPT !.lines = AppendAllNew(@, SelectSeq(stripped,
                                                          LAMBDA line : line # <<>>))]

\* lines 264-276 and 297-309: the values of the lines read, stripped, the
\* empty ones left out.
ValuesRead(file, sep) ==
    LET read == LinesRead(file)
        values(line) == LET raw == SplitOn(Strip(line), {sep})
                        IN  [i \in 1..Len(raw) |-> Strip(raw[i])]
    IN  SelectSeq(ConcatAll([i \in 1..Len(read) |-> values(read[i])]),
                  LAMBDA value : value # <<>>)

\* _parse_tsv_file
parse_tsv_file(c, file) == [c EXCEPT !.words = AppendAllNew(@, ValuesRead(file, "\t"))]

\* _parse_csv_file
parse_csv_file(c, file) == [c EXCEPT !.words = AppendAllNew(@, ValuesRead(file, ","))]

\* f"{first_line} ({counter})"; the counter stays below 10 here.
CounterKey(first_line, counter) ==
    first_line \o <<" ", "(">>
        \o <<(<<"0", "1", "2", "3", "4", "5", "6", "7", "8", "9">>)[counter + 1]>>
        \o <<")">>

\* A faulty key: the first line, taken or not.
block_key_first_line(bs, first_line) == first_line

\* _parse_separator_file, lines 348-352: the first line, or the first line
\* with the first counter from 2 on that gives a key not in self.blocks.
block_key(bs, first_line) ==
    LET key(counter) == IF counter = 1 THEN first_line
                        ELSE CounterKey(first_line, counter)
        taken(counter) == \E i \in 1..Len(bs) : bs[i].key = key(counter)
    IN  key(CHOOSE counter \in 1..(Len(bs) + 1) :
               ~taken(counter) /\ \A m \in 1..(counter - 1) : taken(m))

\* "self.blocks[key] = block" on the dict as the list of its items.
SetItem(bs, key, body) ==
    IF \E i \in 1..Len(bs) : bs[i].key = key
    THEN [i \in 1..Len(bs) |-> IF bs[i].key = key THEN [key |-> key, body |-> body]
                                ELSE bs[i]]
    ELSE Append(bs, [key |-> key, body |-> body])

\* lines 335-354: the loop over the blocks of one file.
RECURSIVE StoreBlocks(_, _)
StoreBlocks(bs, found) ==
    IF found = <<>> THEN bs
    ELSE LET block == Strip(Head(found))
             first_line == Strip(Head(SplitOn(block, {"\n"})))
         IN  StoreBlocks(IF block = <<>> \/ first_line = <<>> THEN bs
                         ELSE SetItem(bs, block_key(bs, first_line), block),
                         Tail(found))

\* _parse_separator_file
parse_separator_file(c, file) ==
    IF ~ReadAll(file) THEN c
    ELSE [c EXCEPT !.blocks = StoreBlocks(@, SplitBars(file.content))]

\* _parse_data_file
parse_data_file(c, file) ==
    IF ~ReadAll(file) THEN c
    ELSE [c EXCEPT !.words = AppendAllNew(@, FindWords(file.content)),
                   !.phrases = AppendAllNew(@, PhrasesOf(SplitWs(file.content)))]

\* A faulty choice: every file is tokenized, whatever its name.
ParseByNameTokenizes(c, file) == parse_data_file(c, file)

\* load_data_files, lines 203-217: the parser of one file, by its name.
ParseByName(c, file) ==
    IF EndsWith(file.name, Suffix_tsv) THEN parse_tsv_file(c, file)
    ELSE IF EndsWith(file.name, Suffix_csv) THEN parse_csv_file(c, file)
    ELSE IF EndsWith(file.name, Suffix_separator_txt) THEN parse_separator_file(c, file)
    ELSE IF EndsWith(file.name, Suffix_line_txt) THEN parse_line_file(c, file)
    ELSE parse_data_file(c, file)

\* lines 202-217: the loop over the files.
RECURSIVE ParseEach(_, _)
ParseEach(c, files) ==
    IF files = <<>> THEN c ELSE ParseEach(ParseByName(c, Head(files)), Tail(files))

\* load_data_files on the corpus c; dir is the data directory, [exists,
\* listing], the listing in the order of os.listdir.  The result is the
\* corpus and the value returned.
load_data_files(c, dir) ==
    IF ~dir.exists THEN [c |-> c, value |-> FALSE]
    ELSE LET files == SelectSeq(dir.listing,
                                LAMBDA f : \/ EndsWith(f.name, Suffix_txt)
                                           \/ EndsWith(f.name, Suffix_tsv)
                                           \/ EndsWith(f.name, Suffix_csv))
         IN  IF files = <<>> THEN [c |-> DataReset(c), value |-> FALSE]
             ELSE [c |-> ParseEach(DataReset(c), files), value |-> TRUE]

\* load_latest_ocr_file on the corpus c at current_time; out is the list of
\* the .txt files of the output directory, at most one here, with the time
\* it was written.
load_latest_ocr_file(c, out, current_time, set_order) ==
    IF out = <<>> THEN [c |-> c, value |-> FALSE]
    ELSE LET latest_file == out[1]
         IN  IF ~IsRecent(latest_file.file_time, current_time)
             THEN [c |-> c, value |-> FALSE]
             ELSE IF EndsWith(latest_file.name, Suffix_line_txt)
             THEN [c |-> parse_line_file(c, latest_file), value |-> ReadAll(latest_file)]
             ELSE [c |-> parse_ocr_file(c, latest_file, set_order),
                   value |-> ReadAll(latest_file)]

\* ----------------------------------------------- runs of the SuggestionManager
\* The files that may lie in the data directory.
FilePool ==
    [name : {Name_txt}, content : {Str_contact}, error : {"none", "open"}]
      \cup [name : {Name_b_txt}, content : {Str_ab_cd_ab_cd}, error : {"none"}]
      \cup [name : {Name_tsv}, content : {Str_tsv}, error : {"none", "open", "later"}]
      \cup [name : {Name_csv}, content : {Str_csv}, error : {"none"}]
      \cup [name : {Name_line_txt}, content : {Str_lines}, error : {"none"}]
      \cup [name : {Name_separator_txt}, content : {Str_blocks}, error : {"none", "open"}]
      \cup [name : {Name_b_separator_txt}, content : {Str_block}, error : {"none"}]

\* The data directory: missing, or a listing of files with distinct names.
DataDirs ==
    {[exists |-> FALSE, listing |-> <<>>]}
      \cup {[exists |-> TRUE, listing |-> l] :
              l \in {m \in ListsOf(FilePool, MaxDataFiles) :
                        \A i, k \in 1..Len(m) : i # k => m[i].name # m[k].name}}

\* The .txt files of the output directory: none, or one written at time 0.
OutputDirs ==
    {<<>>}
      \cup {<<f>> : f \in [name : {Name_txt}, content : {Str_contact, Str_ab_cd_ab_cd},
                           error : {"none", "open"}, file_time : {0}]}
      \cup {<<[name |-> Name_line_txt, content |-> Str_lines, error |-> "none",
               file_time |-> 0]>>}

\* get_suggestions, line 409: the default of max_results.
DefaultMaxResults == 10

\* One run of the interpreter: the two directories, the time of the calls,
\* the order of its sets, the text typed into the popup.
Runs ==
    [op : {"run"}, data : DataDirs, output : OutputDirs,
     current_time : {FreshSeconds, FreshSeconds + 1},
     set_order : {"first_seen", "last_seen"},
     partial_text : {Str_frank, Str_ab}]

\* The call is made and its value kept in ret, the list of the calls so far.
Called(call, value) ==
    /\ arg.op = "run"
    /\ Len(ret) < MaxCalls
    /\ ret' = Append(ret, [call |-> call, value |-> value])
    /\ UNCHANGED <<state, stop_ocr, ocr_thread, pc, running, hmode, lfile, captures, selRef,
                   selObj, popup, mpc, qobs, dataVer, artifacts, outdir, swList, arg, flags>>

RunLoadDataFiles ==
    LET done == load_data_files(Collections, arg.data)
    IN  /\ Called("load_data_files", done.value)
        /\ SetCollections(done.c)

RunLoadLatestOcrFile ==
    LET done == load_latest_ocr_file(Collections, arg.output, arg.current_time,
                                     arg.set_order)
    IN  /\ Called("load_latest_ocr_file", done.value)
        /\ SetCollections(done.c)

RunGetSuggestions ==
    /\ Called("get_suggestions",
              GetSuggestions(Collections, arg.partial_text, DefaultMaxResults))
    /\ UNCHANGED corpus

\* SuggestionManager.__init__, lines 27-30.
EmptyCollections == [words |-> <<>>, phrases |-> <<>>, lines |-> <<>>, blocks |-> <<>>]

\* SuggestionManager.__init__: empty collections, then load_data_files.
InitRun ==
    /\ Machine(0)
    /\ outdir = {}
    /\ arg \in Runs
    /\ LET c == load_data_files(EmptyCollections, arg.data).c
       IN  /\ words = c.words
           /\ phrases = c.phrases
           /\ lines = c.lines
           /\ blocks = c.blocks

NextRun == RunLoadDataFiles \/ RunLoadLatestOcrFile \/ RunGetSuggestions

SpecRun == InitRun /\ [][NextRun]_vars

\* ----------------------------------- the popup's callbacks, statement by statement
\* root.update() runs a scheduled _show_window.
ShowWindow ==
    /\ afterQ # <<>>
    /\ Head(afterQ) = "show"
    /\ TkAfter

\* A faulty _hide_window: the text is typed while the window is still there.
HideWindowTypesFirst ==
    /\ mpc = "update"
    /\ afterQ # <<>>
    /\ Head(afterQ) = "hide"
    /\ text_to_insert' = None
    /\ mpc' = "hw_insert"
    /\ UNCHANGED <<state, stop_ocr, ocr_thread, pc, hmode, lfile, running, captures, selRef,
                   selObj, window, is_visible, ocr_in_progress, afterQ, qobs, corpus,
                   dataVer, artifacts, aux>>

\* root.update() runs a scheduled _hide_window, lines 310-319: the window is
\* destroyed (which deletes the callbacks still scheduled on it); with a text
\* to insert, insert_text follows.
HideWindow ==
    /\ mpc = "update"
    /\ afterQ # <<>>
    /\ Head(afterQ) = "hide"
    /\ window' = None
    /\ afterQ' = <<>>
    /\ mpc' = IF text_to_insert # None THEN "hw_insert" ELSE "update"
    /\ UNCHANGED <<state, stop_ocr, ocr_thread, pc, hmode, lfile, running, captures, selRef,
                   selObj, is_visible, ocr_in_progress, text_to_insert, qobs, corpus,
                   dataVer, artifacts, aux>>

\* _hide_window, lines 327-331: the text is typed, text_to_insert = None.
InsertText ==
    /\ mpc = "hw_insert"
    /\ text_to_insert' = None
    /\ mpc' = "update"
    /\ UNCHANGED <<state, stop_ocr, ocr_thread, pc, hmode, lfile, running, captures, selRef,
                   selObj, window, is_visible, ocr_in_progress, afterQ, qobs, corpus,
                   dataVer, artifacts, aux>>

\* The main thread with _hide_window in two steps.
PopupThread ==
    \/ ShowWindow
    \/ HideWindow
    \/ InsertText
    \/ PopupEnter
    \/ PopupEscape
    \/ LoopCheck

\* The code of a callback runs in far less than a minute: time passes, in
\* steps of more than 60 s, while no callback is between its dispatch and
\* its return, or while it waits for the user at the prompt.
BetweenCallbacks == \A h \in Hot : pc[h] \in {"idle", "sel_wait"}

\* The orchestrator with serial callbacks and the popup statement by
\* statement.
NextPopup ==
    \/ \E h \in SerialHot : SerialCallback(h)
    \/ \E j \in Jobs : JobThread(j)
    \/ PopupThread
    \/ \E t \in Threads : LoadLatestOcrFile(t) \/ LoadDataFiles(t)
    \/ (BetweenCallbacks /\ Tick)

\* The main loop goes on for ever, and so does the code of a callback that
\* does not wait for the user.
FairPopup ==
    /\ WF_vars(ShowWindow \/ HideWindow \/ InsertText \/ LoopCheck)
    /\ \A h \in SerialHot :
          WF_vars(SelBegin(h) \/ SelCreate(h) \/ SelReturn(h) \/ CapBegin(h) \/ CapMark(h)
                    \/ CapThread(h) \/ CapExcept(h) \/ SgState(h)
                    \/ LoadLatestOcrFile(h) \/ LoadDataFiles(h))

SpecPopup == Init /\ [][NextPopup]_vars /\ FairPopup

\* ------------------------------------- hotkeys that take no branch, on record
\* Hotkey callbacks one run is seen to take without a branch.
MaxIgnored == 2

\* "Capture hotkey pressed. Current state: ..." / "Suggestion hotkey pressed.
\* Current state: ...": the first statement of either handler writes the key
\* and the state to the log; ret keeps these lines for the callbacks that
\* take no branch.
Logged(key) ==
    /\ Len(ret) < MaxIgnored
    /\ ret' = Append(ret, [key |-> key, state |-> state])
    /\ UNCHANGED <<outdir, swList, arg, flags>>

CaptureHotkeyIgnored(h) == CaptureHotkeyNoBranch(h) /\ Logged("capture")

SuggestionHotkeyIgnored(s) == SuggestionHotkeyNoBranch(s) /\ Logged("suggestion")

\* The callbacks of both hotkeys, overlapping, with the branchless ones on
\* record.
KeysCallback(h) ==
    \/ CaptureHotkeyIdle(h)
    \/ CaptureHotkeySelection(h)
    \/ CaptureHotkeySuggesting(h)
    \/ CaptureHotkeyIgnored(h)
    \/ CaptureSteps(h)
    \/ SuggestionHotkeyIdle(h)
    \/ SuggestionHotkeySuggesting(h)
    \/ SuggestionHotkeyIgnored(h)
    \/ SgState(h)

NextKeys ==
    \/ \E h \in Hot : KeysCallback(h)
    \/ \E j \in Jobs : JobThread(j)
    \/ MainThread
    \/ \E t \in Threads : LoadLatestOcrFile(t) \/ LoadDataFiles(t)

\* One capture is left to the run, as in InitStore.
SpecKeys == InitStore /\ [][NextKeys]_vars

\* ------------------------------------- the popup's list and the text it types
Str_greeting == <<"H", "e", "l", "l", "o", " ", "t", "h", "e", "r", "e", "\n", "G", "o",
    "o", "d", " ", "m", "o", "r", "n", "i", "n", "g", "\n">>
Str_hello_there == <<"H", "e", "l", "l", "o", " ", "t", "h", "e", "r", "e">>
Str_good_morning == <<"G", "o", "o", "d", " ", "m", "o", "r", "n", "i", "n", "g">>
Str_plain == <<"G", "o", "o", "d", " ", "m", "o", "r", "n", "i", "n", "g", " ", "m",
    "o", "r", "e">>
Str_mor == <<"m", "o", "r">>
Str_k == <<"k">>
Str_paren2 == <<"(", "2">>
Str_key_lines == <<"K", " ", "(", "2", ")", "\n", "K", "\n">>
Str_K_2 == <<"K", " ", "(", "2", ")">>
Str_cells == <<"G", "o", "o", "d", " ", "m", "o", "r", "n", "i", "n", "g", "\t", "K",
    " ", "(", "2", ")", "\n">>
Str_two_blocks == <<"K", "\n", "a", "b", "|", "|", "K", "\n", "c", "d">>
Str_K_ab == <<"K", "\n", "a", "b">>
Str_K_cd == <<"K", "\n", "c", "d">>
Name_greeting_line_txt == <<"g", "r", "e", "e", "t", "i", "n", "g", "_", "l", "i", "n", "e", ".",
    "t", "x", "t">>
Name_k_line_txt == <<"k", "_", "l", "i", "n", "e", ".", "t", "x", "t">>

\* A faulty insert_text: the given text is typed, a key of a block or not.
insert_text_as_given(c, text) == IF text = <<>> THEN <<>> ELSE <<text>>

\* insert_text on the corpus c: the arguments of keyboard.type, none or one.
insert_text(c, text) ==
    IF text = <<>> THEN <<>>
    ELSE IF \E i \in 1..Len(c.blocks) : c.blocks[i].key = text
    THEN <<c.blocks[CHOOSE i \in 1..Len(c.blocks) : c.blocks[i].key = text].body>>
    ELSE <<text>>

\* _show_window, lines 207-221: the list the popup opens with.
InitialSuggestions(c) ==
    IF c.lines # <<>> THEN Slice(c.lines, 10)
    ELSE IF c.words # <<>> THEN Slice(c.words, 10)
    ELSE <<>>

\* The files that may lie in the data directory of these runs.
PickPool ==
    {[name |-> Name_greeting_line_txt, content |-> Str_greeting, error |-> "none"],
     [name |-> Name_b_txt, content |-> Str_plain, error |-> "none"],
     [name |-> Name_separator_txt, content |-> Str_two_blocks, error |-> "none"],
     [name |-> Name_k_line_txt, content |-> Str_key_lines, error |-> "none"],
     [name |-> Name_tsv, content |-> Str_cells, error |-> "none"]}

PickDirs ==
    {[exists |-> TRUE, listing |-> l] :
        l \in {m \in ListsOf(PickPool, MaxDataFiles) :
                  \A i, k \in 1..Len(m) : i # k => m[i].name # m[k].name}}

\* The runs: no recognition artifact, the text typed into the popup.
PickRuns ==
    [op : {"run"}, data : PickDirs, output : {<<>>}, current_time : {FreshSeconds},
     set_order : {"first_seen"}, partial_text : {Str_mor, Str_k, Str_paren2}]

\* The texts insert_text is given on its own.
InsertTexts == {<<>>, Str_K, Str_K_2, Str_mor, Str_good_morning}

\* show, _show_window: the popup opens with its first list.
RunShow ==
    /\ Called("show", InitialSuggestions(Collections))
    /\ UNCHANGED corpus

\* _on_enter, hide and _hide_window after the list was filled by the last
\* call: the entry selected in the list (the first one, or one the user moved
\* to), or the input text when the list is empty, goes to insert_text.
RunEnter ==
    /\ ret # <<>>
    /\ LET shown == ret[Len(ret)]
       IN  /\ shown.call \in {"show", "get_suggestions"}
           /\ \/ /\ shown.value # <<>>
                 /\ \E idx \in 1..Len(shown.value) :
                       Called("_on_enter",
                              [selected |-> shown.value[idx], listed |-> TRUE,
                               typed |-> insert_text(Collections, shown.value[idx])])
              \/ /\ shown.value = <<>>
                 /\ shown.call = "get_suggestions"
                 /\ Called("_on_enter",
                           [selected |-> arg.partial_text, listed |-> FALSE,
                            typed |-> insert_text(Collections, arg.partial_text)])
    /\ UNCHANGED corpus

RunInsertText ==
    /\ \E text \in InsertTexts :
          Called("insert_text", [text |-> text, typed |-> insert_text(Collections, text)])
    /\ UNCHANGED corpus

InitPick ==
    /\ Machine(0)
    /\ outdir = {}
    /\ arg \in PickRuns
    /\ LET c == load_data_files(EmptyCollections, arg.data).c
       IN  /\ words = c.words
           /\ phrases = c.phrases
           /\ lines = c.lines
           /\ blocks = c.blocks

NextPick == RunLoadDataFiles \/ RunGetSuggestions \/ RunShow \/ RunEnter \/ RunInsertText

SpecPick == InitPick /\ [][NextPick]_vars

\* ----------------------------------------- main.py: the orchestrator with flags
\* main.py has no state field: the callbacks of the hotkeys set
\* show_suggestion_window and hide_suggestion_window, the loop of start()
\* acts on them.  Its SuggestionWindow has no escape callback.  The job,
\* _process_ocr_in_background, is the one of screenshot_ocr_tool.py line by
\* line (JobThread).
\* handle_capture_hotkey, lines 84-100: with the popup visible, the stop flag
\* is set if a job is alive and the hide flag is set next; else
\* capture_and_process is called (one more of the captures of the run).
MainCaptureHotkey(h) ==
    /\ Free(h)
    /\ IF is_visible
       THEN /\ stop_ocr' = IF IsAlive(ocr_thread) THEN TRUE ELSE stop_ocr
            /\ Goto(h, "m_hide")
            /\ UNCHANGED captures
       ELSE /\ captures < MaxCaptures
            /\ captures' = captures + 1
            /\ Goto(h, "m_cap")
            /\ UNCHANGED stop_ocr
    /\ Run(h, "capture")
    /\ UNCHANGED <<state, ocr_thread, hmode, lfile, selRef, selObj, popup, mpc,
                   qobs, corpus, dataVer, artifacts, aux>>

\* handle_suggestion_hotkey, lines 230-246: the same with the popup visible;
\* else the in-progress marker is cleared and the loads follow.
MainSuggestionHotkey(s) ==
    /\ Free(s)
    /\ IF is_visible
       THEN /\ stop_ocr' = IF IsAlive(ocr_thread) THEN TRUE ELSE stop_ocr
            /\ Goto(s, "m_hide")
            /\ UNCHANGED ocr_in_progress
       ELSE /\ ocr_in_progress' = FALSE
            /\ Goto(s, "m_load")
            /\ UNCHANGED stop_ocr
    /\ Run(s, "suggestion")
    /\ UNCHANGED <<state, ocr_thread, hmode, lfile, captures, selRef, selObj, window,
                   is_visible, text_to_insert, afterQ, mpc, qobs, corpus, dataVer,
                   artifacts, aux>>

\* A faulty hide branch: the callback returns without setting the flag.
MainSetHideForgets(h) ==
    /\ pc[h] = "m_hide"
    /\ Goto(h, "idle")
    /\ Run(h, None)
    /\ UNCHANGED <<state, stop_ocr, ocr_thread, hmode, lfile, captures, selRef, selObj, popup,
                   mpc, qobs, corpus, dataVer, artifacts, aux>>

\* lines 94-96 and 240-242: hide_suggestion_window = True; return.
MainSetHide(h) ==
    /\ pc[h] = "m_hide"
    /\ hide_suggestion_window' = TRUE
    /\ Goto(h, "idle")
    /\ Run(h, None)
    /\ UNCHANGED <<state, stop_ocr, ocr_thread, hmode, lfile, captures, selRef, selObj, popup,
                   mpc, qobs, corpus, dataVer, artifacts, outdir, swList, arg, ret,
                   show_suggestion_window>>

\* capture_and_process, lines 126-149 and 159-164: the stop flag is reset
\* and the screen captured; then load_latest_ocr_file, the in-progress
\* marker and the show flag; a capture that raises runs the except block.
MainCapture(h) ==
    /\ pc[h] = "m_cap"
    /\ stop_ocr' = FALSE
    /\ \E ok \in BOOLEAN :
          IF ok
          THEN /\ SetCollections(IF LatestFile(artifacts) = 0 THEN Collections
                                 ELSE ParseOcrFile(Collections, LatestFile(artifacts)))
               /\ ocr_in_progress' = TRUE
               /\ show_suggestion_window' = TRUE
               /\ Goto(h, "m_thread")
          ELSE /\ ocr_in_progress' = FALSE
               /\ Goto(h, "m_load")
               /\ UNCHANGED <<corpus, show_suggestion_window>>
    /\ UNCHANGED <<state, ocr_thread, hmode, lfile, running, captures, selRef, selObj,
                   window, is_visible, text_to_insert, afterQ, mpc, qobs, dataVer, artifacts,
                   outdir, swList, arg, ret, hide_suggestion_window>>

\* lines 152-157: the job thread is created and started.
MainStartJob(h) ==
    /\ pc[h] = "m_thread"
    /\ LET k == Cardinality({j \in Jobs : pc[j] # None}) + 1
       IN  /\ ocr_thread' = k
           /\ pc' = [pc EXCEPT ![h] = "m_load", ![Job(k)] = "j_check"]
    /\ UNCHANGED <<state, stop_ocr, hmode, lfile, running, captures, selRef, selObj, popup,
                   mpc, qobs, corpus, dataVer, artifacts, aux>>

\* lines 103-116 and 248-262: load_data_files, load_latest_ocr_file,
\* show_suggestion_window = True.
MainLoad(h) ==
    /\ pc[h] = "m_load"
    /\ LET data == ParseDataFiles(Collections, dataVer)
       IN  SetCollections(IF LatestFile(artifacts) = 0 THEN data
                          ELSE ParseOcrFile(data, LatestFile(artifacts)))
    /\ show_suggestion_window' = TRUE
    /\ Goto(h, "idle")
    /\ Run(h, None)
    /\ UNCHANGED <<state, stop_ocr, ocr_thread, hmode, lfile, captures, selRef, selObj, popup,
                   mpc, qobs, dataVer, artifacts, outdir, swList, arg, ret,
                   hide_suggestion_window>>

\* _on_escape, _check_focus and _on_enter without an escape callback:
\* hide(None) or hide(None, selected_text).
MainPopupKey ==
    /\ mpc = "update"
    /\ window = "mapped"
    /\ Len(afterQ) < MaxAfter
    /\ \E text \in {None, "text"} : HideVars(text)
    /\ UNCHANGED <<state, stop_ocr, ocr_thread, pc, hmode, lfile, running, captures, selRef,
                   selObj, window, ocr_in_progress, mpc, qobs, corpus, dataVer, artifacts,
                   aux>>

\* start(), lines 300-308: root.update() has run the pending callbacks.
MainLoopUpdate ==
    /\ mpc = "update"
    /\ afterQ = <<>>
    /\ mpc' = "if_show"
    /\ UNCHANGED <<state, stop_ocr, ocr_thread, pc, hmode, lfile, running, captures, selRef,
                   selObj, popup, qobs, corpus, dataVer, artifacts, aux>>

\* lines 311-313: "if self.show_suggestion_window", then show(), which makes
\* the window if there is none and schedules _show_window.
MainLoopShow ==
    /\ mpc = "if_show"
    /\ IF show_suggestion_window
       THEN /\ window' = IF window = None THEN "withdrawn" ELSE window
            /\ afterQ' = Append(afterQ, "show")
            /\ mpc' = "show_false"
       ELSE /\ mpc' = "if_hide"
            /\ UNCHANGED <<window, afterQ>>
    /\ UNCHANGED <<state, stop_ocr, ocr_thread, pc, hmode, lfile, running, captures, selRef,
                   selObj, is_visible, ocr_in_progress, text_to_insert, qobs, corpus, dataVer,
                   artifacts, aux>>

\* line 314: show_suggestion_window = False
MainLoopShowDone ==
    /\ mpc = "show_false"
    /\ show_suggestion_window' = FALSE
    /\ mpc' = "if_hide"
    /\ UNCHANGED <<state, stop_ocr, ocr_thread, pc, hmode, lfile, running, captures, selRef,
                   selObj, popup, qobs, corpus, dataVer, artifacts, outdir, swList, arg, ret,
                   hide_suggestion_window>>

\* lines 316-318: "if self.hide_suggestion_window", then hide(), which
\* returns at once when there is no window.
MainLoopHide ==
    /\ mpc = "if_hide"
    /\ IF hide_suggestion_window
       THEN /\ IF window # None
               THEN /\ is_visible' = FALSE
                    /\ afterQ' = Append(afterQ, "hide")
               ELSE UNCHANGED <<is_visible, afterQ>>
            /\ mpc' = "hide_false"
       ELSE /\ mpc' = "update"
            /\ UNCHANGED <<is_visible, afterQ>>
    /\ UNCHANGED <<state, stop_ocr, ocr_thread, pc, hmode, lfile, running, captures, selRef,
                   selObj, window, ocr_in_progress, text_to_insert, qobs, corpus, dataVer,
                   artifacts, aux>>

\* line 319: hide_suggestion_window = False; the sleep; the next round.
MainLoopHideDone ==
    /\ mpc = "hide_false"
    /\ hide_suggestion_window' = FALSE
    /\ mpc' = "update"
    /\ UNCHANGED <<state, stop_ocr, ocr_thread, pc, hmode, lfile, running, captures, selRef,
                   selObj, popup, qobs, corpus, dataVer, artifacts, outdir, swList, arg, ret,
                   show_suggestion_window>>

\* One callback of either hotkey.
MainCallback(h) ==
    \/ MainCaptureHotkey(h)
    \/ MainSuggestionHotkey(h)
    \/ MainSetHide(h)
    \/ MainCapture(h)
    \/ MainStartJob(h)
    \/ MainLoad(h)

\* The loop of start() and the Tk callbacks root.update() runs.
MainLoop ==
    \/ TkAfter
    \/ MainPopupKey
    \/ MainLoopUpdate
    \/ MainLoopShow
    \/ MainLoopShowDone
    \/ MainLoopHide
    \/ MainLoopHideDone

NextMain ==
    \/ \E h \in Hot : MainCallback(h)
    \/ \E j \in Jobs : JobThread(j) \/ LoadLatestOcrFile(j)
    \/ MainLoop

\* The loop goes on for ever; a callback and a job go on to their end.
FairMain ==
    /\ WF_vars(TkAfter \/ MainLoopUpdate \/ MainLoopShow \/ MainLoopShowDone
                 \/ MainLoopHide \/ MainLoopHideDone)
    /\ \A h \in Hot : WF_vars(MainSetHide(h) \/ MainCapture(h) \/ MainStartJob(h) \/ MainLoad(h))
    /\ \A j \in Jobs : WF_vars(JobThread(j) \/ LoadLatestOcrFile(j))

\* One capture is left to the run, as in InitStore.
SpecMain == InitStore /\ [][NextMain]_vars /\ FairMain


\* --------------------------------------- the popup with insertions that fail
\* Selections and insert_text calls one run keeps on record.
MaxTyped == 4

\* _on_enter with a non-empty selection, put on record.
TypeEnter ==
    /\ mpc = "update"
    /\ window = "mapped"
    /\ Len(afterQ) < MaxAfter
    /\ Len(ret) < MaxTyped
    /\ ret' = Append(ret, "_on_enter")
    /\ state' = IDLE
    /\ HideVars("text")
    /\ UNCHANGED <<stop_ocr, ocr_thread, pc, hmode, lfile, running, captures, selRef, selObj,
                   window, ocr_in_progress, mpc, qobs, corpus, dataVer, artifacts,
                   outdir, swList, arg, flags>>

\* _hide_window, lines 327-331: insert_text is called, put on record.  It
\* returns, and text_to_insert = None follows; or pynput raises (Controller(),
\* keyboard.type), and the except clause of line 332 is all that follows.
TypeInsertText ==
    /\ mpc = "hw_insert"
    /\ Len(ret) < MaxTyped
    /\ ret' = Append(ret, "insert_text")
    /\ \E raised \in BOOLEAN :
          text_to_insert' = IF raised THEN text_to_insert ELSE None
    /\ mpc' = "update"
    /\ UNCHANGED <<state, stop_ocr, ocr_thread, pc, hmode, lfile, running, captures, selRef,
                   selObj, window, is_visible, ocr_in_progress, afterQ, qobs, corpus,
                   dataVer, artifacts, outdir, swList, arg, flags>>

\* The orchestrator with serial callbacks, the popup statement by statement
\* and an insertion that may fail.
NextType ==
    \/ \E h \in SerialHot : SerialCallback(h)
    \/ \E j \in Jobs : JobThread(j)
    \/ ShowWindow
    \/ HideWindow
    \/ TypeInsertText
    \/ TypeEnter
    \/ PopupEscape
    \/ LoopCheck
    \/ \E t \in Threads : LoadLatestOcrFile(t) \/ LoadDataFiles(t)

SpecType == InitStore /\ [][NextType]_vars

\* ===================================================================== claims
\* A context takes a step of its own: its position changes.
Steps(t) == pc'[t] # pc[t]

LoaderLabels == {"po_clear", "po_words", "po_phrases", "ld_line", "ld_plain", "ld_sep"}

\* C1: when the capture raises in CAPTURING, the callback's error handling
\* puts the state back to IDLE before it returns (the state never stays
\* CAPTURING after a failed capture).
C1_FailedCaptureReturnsToIdle ==
    [][\A h \in Hot : (pc[h] = "cap_except" /\ Steps(h)) => state' = IDLE]_vars

\* C2: at most one recognition job is alive at any time.
C2_AtMostOneJob == Cardinality({j \in Jobs : IsAlive(j[2])}) <= 1

\* The program at rest: no callback and no job is running and no Tk callback
\* is scheduled, so nothing but a new user input makes the program change
\* anything (LoopCheck changes nothing unless the state is SUGGESTING).
AtRest ==
    /\ \A h \in Hot : pc[h] = "idle"
    /\ \A j \in Jobs : ~IsAlive(j[2])
    /\ afterQ = <<>>
    /\ mpc = "update"

\* C3: after a hotkey has dismissed the popup (state IDLE) the main loop
\* hides it: once the program is at rest in IDLE the popup is not on screen.
C3_DismissedPopupHidden == (AtRest /\ state = IDLE) => window # "mapped"

\* C4: every step of a recognition job leaves ToolState and the popup
\* (window, is_visible, the scheduled show/hide callbacks) as they are,
\* whatever the state is by then; its ingestion step loads its artifact when
\* that is the newest file and still fresh; its last step clears the
\* in-progress marker.
C4_LateJobCompletion ==
    [][\A j \in Jobs : (IsAlive(j[2]) /\ Steps(j)) =>
          /\ state' = state
          /\ window' = window
          /\ is_visible' = is_visible
          /\ afterQ' = afterQ
          /\ (pc'[j] = "done" => ~ocr_in_progress')
          /\ (pc[j] = "lo_find" /\ LatestFile(artifacts) = j[2] =>
                /\ words' = <<OcrWord(j[2])>>
                /\ InSeq(OcrPhrase(j[2]), phrases'))
          /\ (pc[j] = "j_clear" => pc'[j] = "done")]_vars

\* C4 witness: job 1 has run to its end (its artifact written and ingested,
\* the marker cleared) after a hotkey dismissed the popup: the cancellation
\* flag was set after the job's check, the state is IDLE, the popup is not
\* shown.
C4_Witness ==
    /\ pc[Job(1)] = "done"
    /\ stop_ocr
    /\ state = IDLE
    /\ words = <<OcrWord(1)>>
    /\ ~ocr_in_progress
    /\ ~is_visible
    /\ window # "mapped"
    /\ afterQ = <<>>

\* C5: a callback whose prompt was cancelled sets the state to IDLE and
\* returns: it never sets CAPTURING, starts no capture and no job.  (The
\* state was set to SELECTION when the callback left the IDLE dispatch.)
C5_CancelledPromptReturnsToIdle ==
    [][\A h \in Hot :
          /\ (pc[h] = "sel_begin" /\ Steps(h) => state' = SELECTION)
          /\ (pc[h] = "sel_wait" /\ Steps(h) /\ selObj[h].result = None =>
                /\ state' = IDLE
                /\ pc'[h] = "idle"
                /\ ocr_thread' = ocr_thread
                /\ \A j \in Jobs : pc'[j] = pc[j]
                /\ artifacts' = artifacts)]_vars

\* C5 witness: the prompt of a callback was cancelled with Escape (its
\* window destroyed, no mode chosen); the callback is about to return.
C5_Witness ==
    \E h \in Hot :
        /\ pc[h] = "sel_wait"
        /\ ~selObj[h].alive
        /\ ~selObj[h].winref
        /\ selObj[h].result = None
        /\ state = SELECTION

\* C6: no hotkey callback blocks on user input: none is ever inside
\* SelectionWindow.show, having shown the prompt itself and waiting for the
\* user's answer.
C6_CallbacksOnlySetIntent == \A h \in Hot : pc[h] # "sel_wait"

\* C7: what a query has read from blocks and from lines is the complete
\* reference data of one version of the files.
C7_QuerySeesOneReferenceVersion ==
    mpc \in {"q_words", "q_phrases"} =>
        \E v \in 1..MaxDataVer :
            /\ qobs[1] = ParseDataFiles(DataReset(<<>>), v).blocks
            /\ qobs[2] = ParseDataFiles(DataReset(<<>>), v).lines

\* C8: while a job ingests its artifact (and no other loader runs), the
\* collection a query is about to read is not empty (not half-built).
C8_IngestionAtomicForReaders ==
    ((\E j \in Jobs : pc[j] \in {"po_words", "po_phrases"})
        /\ \A h \in Hot : pc[h] \notin LoaderLabels) =>
        /\ (mpc = "q_words" => words # <<>>)
        /\ (mpc = "q_phrases" => phrases # <<>>)

\* C9: load_latest_ocr_file keeps lines and blocks and every word and phrase
\* that came from the reference files.
C9_IngestionKeepsReferenceEntries ==
    [][\A t \in Threads : (pc[t] = "lo_find" /\ Steps(t)) =>
          /\ lines' = lines
          /\ blocks' = blocks
          /\ \A v \in 1..MaxDataVer :
                /\ (InSeq(RefWord(v), words) => InSeq(RefWord(v), words'))
                /\ (InSeq(RefPhrase(v), phrases) => InSeq(RefPhrase(v), phrases'))]_vars

\* C10: load_data_files keeps the words and phrases of the newest artifact
\* while that artifact is fresh.
C10_ReloadKeepsFreshCaptureEntries ==
    [][\A t \in Threads :
          (pc[t] = "ld_clear" /\ Steps(t) /\ LatestFile(artifacts) # 0) =>
              /\ (InSeq(OcrWord(LatestFile(artifacts)), words)
                    => InSeq(OcrWord(LatestFile(artifacts)), words'))
              /\ (InSeq(OcrPhrase(LatestFile(artifacts)), phrases)
                    => InSeq(OcrPhrase(LatestFile(artifacts)), phrases'))]_vars


\* C11: every recognition job comes to its end, whether it finishes
\* normally, is cancelled at its check, or recognition (or anything after it)
\* raises; the step that ends it leaves the in-progress marker cleared; and a
\* marker that is set is always cleared again later.
C11_JobEventuallyClearsMarker ==
    /\ \A j \in Jobs : (pc[j] = "j_check") ~> (pc[j] = "done")
    /\ [][\A j \in Jobs : (Steps(j) /\ pc'[j] = "done") => ~ocr_in_progress']_vars
    /\ ocr_in_progress ~> ~ocr_in_progress

\* C11 witness: a job has ended without writing its artifact and without
\* having been asked to stop (recognition raised); the marker is cleared.
C11_Witness ==
    \E j \in Jobs :
        /\ pc[j] = "done"
        /\ ~stop_ocr
        /\ captures = 1
        /\ \A i \in 1..Len(artifacts) : artifacts[i].id # j[2]
        /\ ~ocr_in_progress

\* C12: the cancellation flag is read once, at the check before
\* recognition.  Set at the check, the job ends there: no recognition, no
\* artifact, the corpus untouched, the marker cleared.  Not set at the check,
\* the job goes on to recognition, and a flag set after that changes nothing:
\* recognition that returns has its artifact written, the artifact is
\* ingested (when it is the newest fresh file) and the marker cleared.
C12_CancellationCheckedOnce ==
    [][\A j \in Jobs : Steps(j) =>
          /\ (pc[j] = "j_check" /\ stop_ocr =>
                /\ pc'[j] = "done"
                /\ artifacts' = artifacts
                /\ corpus' = corpus
                /\ ~ocr_in_progress')
          /\ (pc[j] = "j_check" /\ ~stop_ocr => pc'[j] = "j_ocr")
          /\ (pc[j] = "j_ocr" /\ pc'[j] # "done" =>
                /\ pc'[j] = "lo_find"
                /\ artifacts' = Append(artifacts, [id |-> j[2], age |-> Fresh]))
          /\ (pc[j] = "lo_find" =>
                /\ pc'[j] = "j_clear"
                /\ (LatestFile(artifacts) = j[2] =>
                      /\ words' = <<OcrWord(j[2])>>
                      /\ phrases'[Len(phrases')] = OcrPhrase(j[2])))
          /\ (pc[j] = "j_clear" => pc'[j] = "done" /\ ~ocr_in_progress')]_vars

\* C12 witness: job 1 ended at its check (no artifact of it), and job 2,
\* asked to stop after its check, has its artifact written and is about to
\* ingest it.
C12_Witness ==
    /\ pc[Job(1)] = "done"
    /\ artifacts = <<[id |-> 2, age |-> Fresh]>>
    /\ pc[Job(2)] = "lo_find"
    /\ stop_ocr

\* Matching as the claims word it, letter by letter.
CasePairs == {<<"a", "A">>, <<"b", "B">>, <<"c", "C">>, <<"k", "K">>}
SameLetter(x, y) == x = y \/ <<x, y>> \in CasePairs \/ <<y, x>> \in CasePairs

\* sub occurs in str at position i, case ignored.
OccursAt(str, sub, i) ==
    /\ i + Len(sub) <= Len(str) + 1
    /\ \A k \in 1..Len(sub) : SameLetter(str[i + k - 1], sub[k])
Contains(str, sub) == \E i \in 1..(Len(str) + 1) : OccursAt(str, sub, i)
Begins(str, sub) == OccursAt(str, sub, 1)
HasChar(str, ch) == \E i \in 1..Len(str) : str[i] = ch

\* The entries of a list at the positions K, in the order of the list.
Pick(list, K) ==
    [i \in 1..Cardinality(K) |->
        list[CHOOSE k \in K : Cardinality({m \in K : m <= k}) = i]]
Those(list, Test(_)) == Pick(list, {i \in 1..Len(list) : Test(list[i])})
DuplicateFree(list) ==
    Pick(list, {i \in 1..Len(list) : \A k \in 1..(i - 1) : list[k] # list[i]})
FirstN(list, n) == [i \in 1..(IF Len(list) < n THEN Len(list) ELSE n) |-> list[i]]
NoDuplicates(list) == \A i, k \in 1..Len(list) : i # k => list[i] # list[k]

\* The seven stages of C13 for the corpus c and the query q, concatenated.
SevenStages(c, q) ==
    LET hits == Those(c.blocks, LAMBDA b : Contains(b.body, q))
    IN  [i \in 1..Len(hits) |-> hits[i].key]
        \o Those(c.lines, LAMBDA x : Contains(x, q))
        \o (IF HasChar(q, "@") \/ HasChar(q, ".")
            THEN Those(c.words, LAMBDA x : HasChar(x, "@") /\ Contains(x, q))
            ELSE <<>>)
        \o Those(c.words, LAMBDA x : Begins(x, q))
        \o Those(c.phrases, LAMBDA x : Begins(x, q))
        \o Those(c.words, LAMBDA x : Contains(x, q) /\ ~Begins(x, q))
        \o Those(c.phrases, LAMBDA x : Contains(x, q) /\ ~Begins(x, q))

\* A get_suggestions call has returned.
Answered == arg.op = "get_suggestions" /\ ret # <<>>

\* C13: the result of get_suggestions is the first max_results entries of
\* the seven stages concatenated in their order, each entry kept where it
\* first occurs (entries are duplicates when they are the same string); the
\* result of an empty query is the empty list.
C13_ResultIsSevenStagesInOrder ==
    Answered =>
        ret[1] = IF arg.partial_text = <<>> THEN <<>>
                 ELSE FirstN(DuplicateFree(SevenStages(arg.corpus, arg.partial_text)),
                             arg.max_results)

\* C13 witness: a block key, a line that is also a word, and a prefix word
\* are returned in this order for the query "abc".
C13_Witness ==
    /\ Answered
    /\ arg.partial_text = Str_abc
    /\ arg.corpus.words = <<Str_xabc, Str_abcdef>>
    /\ ret[1] = <<Str_K, Str_xabc, Str_abcdef>>

\* C14: get_suggestions returns at most max_results items (max_results being
\* a count, 0 or more), and no item twice.
C14_AtMostMaxResultsAllUnique ==
    Answered => Len(ret[1]) <= arg.max_results /\ NoDuplicates(ret[1])

\* C14 witness: of a word listed twice and two phrases, all matching, two
\* items are returned for max_results = 2.
C14_Witness ==
    /\ Answered
    /\ arg.max_results = 2
    /\ arg.corpus.words = <<Str_abcdef, Str_abcdef>>
    /\ arg.corpus.phrases = <<Str_Abc_d, Str_x_abc>>
    /\ ret[1] = <<Str_abcdef, Str_Abc_d>>

\* C15: every item returned is the key of a block whose body contains the
\* query, or a line, word or phrase that contains the query (every match
\* kind of words and phrases requires that), case ignored.
C15_EveryItemMatches ==
    Answered =>
        \A i \in 1..Len(ret[1]) :
            \/ \E k \in 1..Len(arg.corpus.blocks) :
                  /\ arg.corpus.blocks[k].key = ret[1][i]
                  /\ Contains(arg.corpus.blocks[k].body, arg.partial_text)
            \/ /\ \/ InSeq(ret[1][i], arg.corpus.lines)
                  \/ InSeq(ret[1][i], arg.corpus.words)
                  \/ InSeq(ret[1][i], arg.corpus.phrases)
               /\ Contains(ret[1][i], arg.partial_text)

\* C15 witness: of two words only the one that contains the query "abc."
\* is returned.
C15_Witness ==
    /\ Answered
    /\ arg.partial_text = Str_abcDot
    /\ arg.corpus.words = <<Str_abcdef, Str_abcDotd>>
    /\ ret[1] = <<Str_abcDotd>>

\* The string x is the key of a block whose body contains the query: in the
\* result it stands where that key stands.
IsMatchingKey(c, q, x) ==
    \E k \in 1..Len(c.blocks) : c.blocks[k].key = x /\ Contains(c.blocks[k].body, q)

\* In the result, the string first is before every occurrence of the string
\* second.
Before(list, first, second) ==
    \A i \in 1..Len(list) : list[i] = second => \E k \in 1..(i - 1) : list[k] = first

IsMatchingLine(c, q, x) == InSeq(x, c.lines) /\ Contains(x, q)

\* The word x is selected by the email stage: the query has an "@" or a ".",
\* and x has an "@" and contains the query.
IsEmailMatch(q, x) ==
    (HasChar(q, "@") \/ HasChar(q, ".")) /\ HasChar(x, "@") /\ Contains(x, q)

Loaded == arg.op = "load_latest_ocr_file" /\ ret # <<>>

OldScreenshotOrText(e) ==
    ~e.isdir /\ (e.name[2] = "png" \/ e.name[2] = "txt") /\ e.age > 60 * 60

\* A sweep of the job ran to its end: the job is past cleanup_old_files.
SweepEnded == \E j \in Jobs : pc[j] \in {"lo_find", "j_clear"}

C20_SweepNeverRaises ==
    [][\A j \in Jobs : (pc[j] = "sw_file" /\ Steps(j)) =>
          pc'[j] \in {"sw_file", "lo_find"}]_vars

\* ------------------------------------------------ the loaders, claims C21..C25
\* The last call of the run.
LastCall == ret[Len(ret)]

\* How often x is in a list.
Count(list, x) == Cardinality({i \in 1..Len(list) : list[i] = x})

\* The reference file with the contact line is in the data directory and
\* can be read.
ContactFileRead ==
    /\ arg.data.exists
    /\ \E i \in 1..Len(arg.data.listing) :
          arg.data.listing[i] = [name |-> Name_txt, content |-> Str_contact, error |-> "none"]

\* C21: when the reference file with the line "Contact:
\* frank.schnepf@example.com for details" has been loaded, the full address,
\* its local part and its domain are Words, and a query for "frank" that
\* follows the reload returns frank.schnepf@example.com, frank.schnepf and
\* frank, each exactly once.
C21_ReferenceEmailAugmented ==
    ContactFileRead =>
        /\ (ret = <<>> \/ LastCall.call = "load_data_files") =>
              /\ Count(words, Str_email) = 1
              /\ Count(words, Str_username) = 1
              /\ Count(words, Str_domain) = 1
        /\ \A i \in 1..Len(ret) :
              (/\ ret[i].call = "get_suggestions"
               /\ arg.partial_text = Str_frank
               /\ (i = 1 \/ ret[i - 1].call = "load_data_files")) =>
                  /\ Count(ret[i].value, Str_email) = 1
                  /\ Count(ret[i].value, Str_username) = 1
                  /\ Count(ret[i].value, Str_frank) = 1

\* The separator files of the data directory that can be read.
SeparatorFilesRead ==
    Those(arg.data.listing,
          LAMBDA f : f.error = "none"
                       /\ Len(f.name) >= Len(Suffix_separator_txt)
                       /\ \A k \in 1..Len(Suffix_separator_txt) :
                             f.name[Len(f.name) - Len(Suffix_separator_txt) + k]
                               = Suffix_separator_txt[k])

\* The blocks of a content that are not empty, stripped.
BlocksIn(content) ==
    LET found == SplitBars(content)
        stripped == [i \in 1..Len(found) |-> Strip(found[i])]
    IN  Those(stripped, LAMBDA b : b # <<>>)

\* The blocks of a list of files, file after file.
RECURSIVE BlocksOf(_)
BlocksOf(files) ==
    IF files = <<>> THEN <<>> ELSE BlocksIn(Head(files).content) \o BlocksOf(Tail(files))

\* The first line of a block.
FirstLine(block) ==
    Strip(SubSeq(block, 1, CHOOSE n \in 0..Len(block) :
                              /\ \A i \in 1..n : block[i] # "\n"
                              /\ (n = Len(block) \/ block[n + 1] = "\n")))

\* The key is the first line of the body, or that line with a suffix " (n)".
KeyOf(key, body) ==
    \/ key = FirstLine(body)
    \/ /\ Len(key) = Len(FirstLine(body)) + 4
       /\ SubSeq(key, 1, Len(FirstLine(body))) = FirstLine(body)
       /\ key[Len(key) - 3] = " "
       /\ key[Len(key) - 2] = "("
       /\ key[Len(key) - 1] \in Digits \ {"0", "1"}
       /\ key[Len(key)] = ")"

\* C22: after load_data_files (in __init__ or later) the stored blocks are
\* the non-empty blocks of the separator files read, one item for each of
\* them, in their order; the keys are distinct, and each key is the first
\* line of its block or that line with a counter suffix.
C22_EveryBlockStoredUnderItsOwnKey ==
    (arg.data.exists /\ (ret = <<>> \/ LastCall.call = "load_data_files")) =>
        /\ [i \in 1..Len(blocks) |-> blocks[i].body] = BlocksOf(SeparatorFilesRead)
        /\ \A i, k \in 1..Len(blocks) : i # k => blocks[i].key # blocks[k].key
        /\ \A i \in 1..Len(blocks) : KeyOf(blocks[i].key, blocks[i].body)

\* Two separator files have been reloaded: four blocks with the first line
\* "K" or "K (2)", the last of them under the key "K (3)".
C22_Witness ==
    /\ ret # <<>>
    /\ LastCall.call = "load_data_files"
    /\ Len(blocks) = 4
    /\ blocks[3].key = <<"K", " ", "(", "2", ")", " ", "(", "2", ")">>
    /\ blocks[4].key = <<"K", " ", "(", "3", ")">>

\* C23: after every ingestion pass, in __init__ or later, of the reference
\* files or of a recognition artifact, no text is twice among the words and
\* no text is twice among the phrases.
C23_NoTextTwice ==
    (ret = <<>> \/ LastCall.call \in {"load_data_files", "load_latest_ocr_file"}) =>
        /\ \A i, k \in 1..Len(words) : i # k => words[i] # words[k]
        /\ \A i, k \in 1..Len(phrases) : i # k => phrases[i] # phrases[k]

\* C24: a call of load_data_files that follows a call of load_data_files,
\* the files being the same, leaves words, phrases, lines and blocks as
\* they are and returns the same value; so does a call of
\* load_latest_ocr_file that follows a call of load_latest_ocr_file.
C24_SecondLoadChangesNothing ==
    [][(/\ ret # <<>>
        /\ Len(ret') = Len(ret) + 1
        /\ ret'[Len(ret')].call = LastCall.call
        /\ LastCall.call \in {"load_data_files", "load_latest_ocr_file"})
          => /\ corpus' = corpus
             /\ ret'[Len(ret')].value = LastCall.value]_vars

\* load_data_files has run twice in a row on a directory with a separator
\* file and a plain file.
C24_Witness ==
    /\ Len(ret) = 2
    /\ ret[1].call = "load_data_files"
    /\ ret[2].call = "load_data_files"
    /\ ret[2].value
    /\ Len(blocks) = 3
    /\ Len(words) = 2
    /\ Len(phrases) = 5

\* The files of the data directory that can be read to their end.
FilesRead == Those(arg.data.listing, LAMBDA f : f.error = "none")

\* C25: when reading a file of the data directory fails, load_data_files
\* returns True as it does without a failure, and the corpus is the one it
\* builds from the other files alone.
C25_FailingFileContributesNothing ==
    (/\ ret # <<>>
     /\ LastCall.call = "load_data_files"
     /\ arg.data.exists
     /\ arg.data.listing # <<>>) =>
        /\ LastCall.value
        /\ Collections
             = load_data_files(EmptyCollections,
                               [exists |-> TRUE, listing |-> FilesRead]).c

\* ---------------------------------------------- the orchestrator, claims C26..C30
\* The callback on context h is in capture_and_process after a capture that
\* returned the image.
CaptureDone(h) ==
    running[h] = "capture" /\ pc[h] \in {"lo_find", "ld_clear", "cap_mark", "cap_thread"}

\* C26: after a capture that succeeded, the callback sets the in-progress
\* marker together with the state SUGGESTING, then starts one job, the one
\* ocr_thread refers to, and returns; the state is not CAPTURING when it
\* returns; and every such callback does get there.
C26_CaptureSuccessStartsJob ==
    /\ [][\A h \in SerialHot :
            /\ (pc[h] = "cap_mark" /\ pc'[h] # pc[h]) =>
                  /\ ocr_in_progress'
                  /\ state' = SUGGESTING
                  /\ pc'[h] = "cap_thread"
            /\ (pc[h] = "cap_thread" /\ pc'[h] # pc[h]) =>
                  /\ pc'[h] = "idle"
                  /\ state' # CAPTURING
                  /\ ocr_thread' # 0
                  /\ pc[Job(ocr_thread')] = None
                  /\ pc'[Job(ocr_thread')] = "j_check"
                  /\ \A j \in Jobs \ {Job(ocr_thread')} : pc'[j] = pc[j]
            /\ (CaptureDone(h) /\ pc'[h] = "idle") => pc[h] = "cap_thread"]_vars
    /\ \A h \in SerialHot : CaptureDone(h) ~> (pc[h] = "idle" /\ state # CAPTURING)

\* The callback has returned after a capture: the job is started and not
\* yet at work, the marker is set, the state is SUGGESTING.
C26_Witness ==
    /\ \A h \in SerialHot : pc[h] = "idle"
    /\ captures = 1
    /\ ocr_thread = 1
    /\ pc[Job(1)] = "j_check"
    /\ ocr_in_progress
    /\ state = SUGGESTING

\* C27: a capture hotkey handled in the state SELECTION sets the state IDLE
\* and leaves no prompt behind: every callback that is in
\* _show_selection_window has its prompt shown and closed by now, without a
\* choice, so that no capture and no job can follow from it.
C27_CaptureHotkeyClosesPrompt ==
    [][(state = SELECTION /\ state' = IDLE /\ pc' = pc) =>
          \A o \in Hot :
              pc[o] \in {"sel_create", "sel_wait"} =>
                  /\ pc[o] = "sel_wait"
                  /\ ~selObj'[o].alive
                  /\ selObj'[o].result = None]_vars

\* The callback on context s is in the IDLE branch of
\* handle_suggestion_hotkey.
SuggestionRuns(s) == running[s] = "suggestion"

\* C28: a suggestion hotkey handled in the state IDLE clears the in-progress
\* marker, then reloads the reference files, then loads the newest artifact
\* if it is at most 60 s old, then sets the state SUGGESTING; none of its
\* steps takes a capture or starts a job; the callback does return, and with
\* the state SUGGESTING the popup is shown in the end, unless the state is
\* changed before.
C28_SuggestionHotkeyShowsPopup ==
    /\ [][\A s \in SerialHot :
            /\ (~SuggestionRuns(s) /\ SuggestionRuns(s)') =>
                  /\ state = IDLE
                  /\ ~ocr_in_progress'
                  /\ pc'[s] = "ld_clear"
            /\ (SuggestionRuns(s) /\ pc'[s] # pc[s]) =>
                  /\ pc[s] = "ld_clear" =>
                        /\ pc'[s] = "lo_find"
                        /\ words' = <<RefWord(dataVer)>>
                        /\ phrases' = <<RefPhrase(dataVer)>>
                        /\ lines' = <<RefLine(dataVer)>>
                        /\ blocks' = <<<<RefBlock(dataVer), 1>>>>
                  /\ pc[s] = "lo_find" =>
                        /\ pc'[s] = "sg_state"
                        /\ (artifacts # <<>> /\ artifacts[Len(artifacts)].age = Fresh) =>
                              /\ words' = <<OcrWord(artifacts[Len(artifacts)].id)>>
                              /\ InSeq(OcrPhrase(artifacts[Len(artifacts)].id), phrases')
                        /\ (artifacts = <<>> \/ artifacts[Len(artifacts)].age = Stale) =>
                              corpus' = corpus
                  /\ pc[s] = "sg_state" =>
                        /\ pc'[s] = "idle"
                        /\ state' = SUGGESTING
                  /\ captures' = captures
                  /\ ocr_thread' = ocr_thread
                  /\ artifacts' = artifacts
                  /\ \A j \in Jobs : pc'[j] = pc[j]]_vars
    /\ \A s \in SerialHot : SuggestionRuns(s) ~> (~SuggestionRuns(s) /\ state = SUGGESTING)
    /\ (state = SUGGESTING) ~> ((is_visible /\ window = "mapped") \/ state # SUGGESTING)

\* The popup is shown after a suggestion hotkey, without any capture.
C28_Witness ==
    /\ state = SUGGESTING
    /\ is_visible
    /\ window = "mapped"
    /\ captures = 0
    /\ ocr_thread = 0
    /\ \A j \in Jobs : pc[j] = None
    /\ ~ocr_in_progress

IgnoredNow == ret'[Len(ret')]

\* C31: a capture hotkey handled in the state CAPTURING, and a suggestion
\* hotkey handled in the state SELECTION or CAPTURING, change nothing: not
\* the state, the stop flag, the in-progress marker or the corpus, nor any
\* other field, thread position or window.
C31_IgnoredHotkeysChangeNothing ==
    [][(ret' # ret) =>
          /\ Len(ret') = Len(ret) + 1
          /\ IgnoredNow.state = state
          /\ IgnoredNow.key = "capture" => state = CAPTURING
          /\ IgnoredNow.key = "suggestion" => state \in {SELECTION, CAPTURING}
          /\ state' = state
          /\ stop_ocr' = stop_ocr
          /\ ocr_in_progress' = ocr_in_progress
          /\ corpus' = corpus
          /\ UNCHANGED <<ocr_thread, pc, hmode, lfile, running, captures, selRef, selObj,
                         window, is_visible, text_to_insert, afterQ, mpc, qobs, dataVer,
                         artifacts>>]_vars

\* A suggestion hotkey was ignored while the prompt was open, and a capture
\* hotkey while the capture of the same callback was on its way.
C31_Witness ==
    /\ Len(ret) = 2
    /\ ret[1] = [key |-> "suggestion", state |-> SELECTION]
    /\ ret[2] = [key |-> "capture", state |-> CAPTURING]
    /\ \E h \in Hot : pc[h] \in {"cap_begin", "lo_find", "ld_clear", "cap_mark"}

\* C32: insert_text types nothing for an empty text, the body stored under
\* the text when the text is a key of blocks (a key with a counter suffix
\* included), and the text itself in every other case.
C32_InsertTextTypesBodyOrText ==
    (ret # <<>> /\ LastCall.call = "insert_text") =>
        LET text == LastCall.value.text
            typed == LastCall.value.typed
            keyed == {i \in 1..Len(blocks) : blocks[i].key = text}
        IN  /\ text = <<>> => typed = <<>>
            /\ (text # <<>> /\ keyed # {}) => \A i \in keyed : typed = <<blocks[i].body>>
            /\ (text # <<>> /\ keyed = {}) => typed = <<text>>

\* insert_text was given the key "K (2)" and typed the second block.
C32_Witness ==
    /\ ret # <<>>
    /\ LastCall.call = "insert_text"
    /\ LastCall.value.text = Str_K_2
    /\ LastCall.value.typed = <<Str_K_cd>>
    /\ Len(blocks) = 2

\* The files of the listing whose name ends with one of the suffixes.
Named(suffixes) ==
    Those(arg.data.listing, LAMBDA f : \E suffix \in suffixes : EndsWith(f.name, suffix))

\* The lines of a content that are not empty, stripped.
LinesIn(content) ==
    LET all == SplitOn(content, {"\n"})
    IN  Those([i \in 1..Len(all) |-> Strip(all[i])], LAMBDA line : line # <<>>)

\* What one file gives to the words: its cells when it is tabular, its
\* tokens when its name has no mark, nothing when it is a file of lines or
\* of blocks.
WordsFrom(f) ==
    IF EndsWith(f.name, Suffix_tsv) THEN ValuesRead(f, "\t")
    ELSE IF EndsWith(f.name, Suffix_csv) THEN ValuesRead(f, ",")
    ELSE IF EndsWith(f.name, Suffix_line_txt) \/ EndsWith(f.name, Suffix_separator_txt)
    THEN <<>>
    ELSE FindWords(f.content)

\* The files with no mark in their name: tokenized.
PlainFiles ==
    Those(arg.data.listing,
          LAMBDA f : \A suffix \in {Suffix_tsv, Suffix_csv, Suffix_line_txt,
                                    Suffix_separator_txt} : ~EndsWith(f.name, suffix))

C39_SelectionInsertsDisplayedText ==
    (/\ ret # <<>>
     /\ LastCall.call = "_on_enter"
     /\ LastCall.value.listed
     /\ \/ InSeq(LastCall.value.selected, lines)
        \/ InSeq(LastCall.value.selected, words)
        \/ InSeq(LastCall.value.selected, phrases)) =>
        LastCall.value.typed = <<LastCall.value.selected>>

\* A callback of main.py is dispatched on context h at this step.
MainDispatched(h) == pc[h] = "idle" /\ pc'[h] # "idle"

\* C34: in main.py, a hotkey callback that finds the popup visible makes no
\* capture and starts no job: it sets the stop flag when a job is alive,
\* then the hide flag, and returns; the loop clears a flag only after it has
\* called show() or hide() for it, and when it clears the hide flag the
\* popup is not visible any more; every flag that is set is cleared in the
\* end, the hide flag with the popup hidden.
C34_FlagsAreActedOn ==
    /\ [][/\ \A h \in Hot :
                /\ (MainDispatched(h) /\ is_visible) =>
                      /\ pc'[h] = "m_hide"
                      /\ IsAlive(ocr_thread) => stop_ocr'
                      /\ captures' = captures
                /\ (pc[h] = "m_hide" /\ pc'[h] # pc[h]) =>
                      /\ hide_suggestion_window'
                      /\ pc'[h] = "idle"
                      /\ captures' = captures
                      /\ ocr_thread' = ocr_thread
                      /\ \A j \in Jobs : pc'[j] = pc[j]
          /\ (show_suggestion_window /\ ~show_suggestion_window') =>
                /\ mpc = "show_false"
                /\ InSeq("show", afterQ)
          /\ (hide_suggestion_window /\ ~hide_suggestion_window') =>
                /\ mpc = "hide_false"
                /\ ~is_visible']_vars
    /\ show_suggestion_window ~> ~show_suggestion_window
    /\ hide_suggestion_window ~> (~hide_suggestion_window /\ ~is_visible)

\* The loop has called hide() for a hide flag set by a hotkey pressed on the
\* visible popup, with a job alive that the same hotkey told to stop.
C34_Witness ==
    /\ mpc = "hide_false"
    /\ hide_suggestion_window
    /\ window = "mapped"
    /\ ~is_visible
    /\ InSeq("hide", afterQ)
    /\ stop_ocr

\* C35: the suggestion popup is visible only while the state is SUGGESTING:
\* in every reachable state, a popup that is on screen with is_visible set
\* implies state = SUGGESTING.
C35_PopupVisibleOnlySuggesting ==
    (is_visible /\ window = "mapped") => state = SUGGESTING

\* C36: a cancellation request is never revoked: while a job that has not
\* yet performed its check is in flight and the stop flag is set, the flag
\* stays set until the job has checked it, and the job then ends without
\* running the recognition, a new capture in between included.
C36_CancellationNeverRevoked ==
    [][\A j \in Jobs :
          (pc[j] = "j_check" /\ stop_ocr) =>
             /\ pc'[j] = "j_check" => stop_ocr'
             /\ pc'[j] # "j_ocr"]_vars

\* C37: the completion of an older job never clears the in-progress marker
\* while the job of a newer capture is still running: a job that ends and
\* takes the marker from true to false has no younger job alive beside it.
C37_OlderJobKeepsMarker ==
    [][\A j \in Jobs :
          (pc[j] # "done" /\ pc'[j] = "done" /\ ocr_in_progress /\ ~ocr_in_progress') =>
             ~\E k \in Jobs : k[2] > j[2] /\ pc[k] \notin {None, "done"}]_vars

\* Calls of `name` among the first n entries of the record.
CountIn(name, n) == Cardinality({i \in 1..n : ret[i] = name})

\* C38: dismissing the popup without a selection never issues a text
\* insertion, whatever selections, failed insertions and dismissals came
\* before: at every point of a run, insert_text has been called at most as
\* often as Enter has selected a text.
C38_DismissalInsertsNothing ==
    \A n \in 1..Len(ret) : CountIn("insert_text", n) <= CountIn("_on_enter", n)
=============================================================================
